---- MODULE Spec2Model ----
(***************************************************************************)
(* A model of glox, a tree-walking interpreter for Lox written in Go:      *)
(* the scanner (scanner.go), the recursive-descent parser (parser.go),     *)
(* the resolver (resolver.go), the evaluator (interpreter.go and the       *)
(* runtime value types) and the driver (glox.go).                          *)
(*                                                                         *)
(* Token lists, syntax trees and runtime values are TLA+ records.  Every   *)
(* Go function that returns (value, error) is an operator that returns a   *)
(* record with the updated receiver state, the value and the error.        *)
(***************************************************************************)
EXTENDS Integers, Sequences, FiniteSets, TLC

\* the digits FormatFloat writes after the decimal point of a fraction that
\* does not end
MaxFractionDigits == 16

VARIABLES
    mode,            \* "core": Parse, Resolver, Interpret in turn; "file" / "repl": Glox.runFile / Glox.runPrompt
    phase,           \* the driver's position
    input,           \* the source units still to be read (driver modes)
    source,          \* Scanner.source, a sequence of characters
    scanner,         \* Scanner.start, current, line
    tokens,          \* Scanner.tokens / Parser.tokens
    parser,          \* Parser.current, loopDepth, allowExpression, foundExpression, disableCommaExpr
    statements,      \* the statement list Parse is building
    syntax,          \* what Parse / ParseREPL returned
    resolver,        \* Resolver.scopes, currentFunction
    resolved,        \* how many top-level statements the Resolver has visited
    interp,          \* Interpreter.environment, globals, locals, the environments, stdout
    next,            \* index of the statement Interpret executes next
    errorPrinter     \* ErrorPrinter.hadError, hadRuntimeError, and what was reported

vars == <<mode, phase, input, source, scanner, tokens, parser, statements, syntax,
          resolver, resolved, interp, next, errorPrinter>>

(***************************************************************************)
(* Tokens (token.go) and the syntax tree (expr.go, stmt.go).               *)
(***************************************************************************)
Token(type, lexeme, literal) == [type |-> type, lexeme |-> lexeme, literal |-> literal]

NilValue == [t |-> "nil"]
BoolValue(b) == [t |-> "bool", v |-> b]
\* a float64: the fraction v/d in lowest terms with d > 0
Abs(n) == IF n < 0 THEN -n ELSE n
RECURSIVE gcd(_, _)
gcd(a, b) == IF b = 0 THEN a ELSE gcd(b, a % b)
Float64(n, d) ==
    [t |-> "num", v |-> ((IF d < 0 THEN -n ELSE n) \div gcd(Abs(n), Abs(d))),
     d |-> Abs(d) \div gcd(Abs(n), Abs(d))]
NumberValue(n) == Float64(n, 1)
StringValue(s) == [t |-> "str", v |-> s]

NoNode == [k |-> "none"]

(***************************************************************************)
(* parser.go.  A parsing function takes the parser p and returns           *)
(* [p, n, err]: the parser afterwards, the node, and whether it failed.    *)
(* Reported errors are collected in p.reported in the order TokenError is  *)
(* called.                                                                 *)
(***************************************************************************)
NewParser == [current |-> 0, loopDepth |-> 0, allowExpression |-> FALSE,
              foundExpression |-> FALSE, disableCommaExpr |-> FALSE,
              reported |-> <<>>, trace |-> <<>>]

Ok(p, n) == [p |-> p, n |-> n, err |-> FALSE]
Fail(p) == [p |-> p, n |-> NoNode, err |-> TRUE]

peek(p) == tokens[p.current + 1]
previous(p) == tokens[p.current]
isAtEnd(p) == peek(p).type = "EOF"
check(p, type) == ~isAtEnd(p) /\ peek(p).type = type
checkNext(p, type) ==
    IF isAtEnd(p) THEN FALSE
    ELSE IF tokens[p.current + 2].type = "EOF" THEN FALSE
    ELSE tokens[p.current + 2].type = type
advance(p) == IF ~isAtEnd(p) THEN [p EXCEPT !.current = @ + 1] ELSE p
\* match(types...) is true when check holds for one of them; the caller advances.
match(p, types) == \E type \in types : check(p, type)

TokenError(token, message) ==
    [where |-> IF token.type = "EOF" THEN "end" ELSE token.lexeme, message |-> message]
error(p, token, message) ==
    [p EXCEPT !.reported = Append(@, TokenError(token, message))]
consume(p, type, message) ==
    IF check(p, type) THEN Ok(advance(p), peek(p))
    ELSE Fail(error(p, peek(p), message))

RECURSIVE synchronizeLoop(_)
synchronizeLoop(p) ==
    IF isAtEnd(p) THEN p
    ELSE IF previous(p).type = "SEMICOLON" THEN p
    ELSE IF peek(p).type \in {"CLASS", "FUN", "VAR", "FOR", "IF", "WHILE", "PRINT", "RETURN"} THEN p
    ELSE synchronizeLoop(advance(p))
synchronize(p) == synchronizeLoop(advance(p))

RECURSIVE rule(_, _), declaration(_), classDeclaration(_), classMethods(_, _), function(_, _),
          functionBody(_, _), parameterList(_, _), varDeclaration(_), statement(_),
          returnStatement(_), breakStatement(_), forStatement(_), whileStatement(_),
          ifStatement(_), block(_), blockLoop(_, _), expressionStatement(_),
          printStatement(_), expression(_), assignment(_), comma(_), commaLoop(_, _),
          conditional(_), conditionalLoop(_, _), or(_), orLoop(_, _), and(_),
          andLoop(_, _), equality(_), equalityLoop(_, _), comparison(_),
          comparisonLoop(_, _), term(_), termLoop(_, _), factor(_), factorLoop(_, _),
          unary(_), call(_), callLoop(_, _), finishCall(_, _), argument(_, _),
          argumentTurns(_, _), argumentList(_, _), primary(_)

primary(p) ==
    IF match(p, {"FALSE"}) THEN Ok(advance(p), [k |-> "Literal", value |-> BoolValue(FALSE)])
    ELSE IF match(p, {"TRUE"}) THEN Ok(advance(p), [k |-> "Literal", value |-> BoolValue(TRUE)])
    ELSE IF match(p, {"NIL"}) THEN Ok(advance(p), [k |-> "Literal", value |-> NilValue])
    ELSE IF match(p, {"NUMBER", "STRING"}) THEN
        Ok(advance(p), [k |-> "Literal", value |-> peek(p).literal])
    ELSE IF match(p, {"IDENTIFIER"}) THEN
        \* the node's identity is the position of its name token
        Ok(advance(p), [k |-> "Variable", name |-> peek(p).lexeme, id |-> p.current])
    ELSE IF match(p, {"LEFT_PAREN"}) THEN
        LET e == rule("expression", advance(p)) IN
        IF e.err THEN Fail(e.p)
        ELSE LET c == consume(e.p, "RIGHT_PAREN", "Expect ')' after expression.") IN
             IF c.err THEN Fail(c.p)
             ELSE Ok(c.p, [k |-> "Grouping", expression |-> e.n])
    ELSE IF match(p, {"FUN"}) THEN
        LET fn == rule("functionBody", advance(p)) IN
        IF fn.err THEN Fail(fn.p) ELSE Ok(fn.p, fn.n)
    ELSE IF match(p, {"THIS"}) THEN
        Ok(advance(p), [k |-> "This", name |-> "this", id |-> p.current])
    ELSE Fail(error(p, peek(p), "Expect expression."))

\* the limit of finishCall: lines 774-776
MaxArguments == 255
tooManyArguments(arguments) == Len(arguments) >= MaxArguments

\* finishCall, one turn of its loop (lines 772-790); more: the loop takes another turn
argument(p, arguments) ==
    IF tooManyArguments(arguments) THEN
        [Fail(error(p, peek(p), "Can't have more than 255 arguments.")) EXCEPT !.n = arguments]
            @@ [more |-> FALSE]
    ELSE LET arg == rule("expression", p) IN
         IF arg.err THEN [Fail(arg.p) EXCEPT !.n = arguments] @@ [more |-> FALSE]
         ELSE IF match(arg.p, {"COMMA"})
              THEN Ok(advance(arg.p), Append(arguments, arg.n)) @@ [more |-> TRUE]
              ELSE Ok(arg.p, Append(arguments, arg.n)) @@ [more |-> FALSE]

\* up to n turns of the loop, n a power of 4, a quarter of them at a time
argumentTurns(a, n) ==
    IF ~a.more THEN a
    ELSE IF n = 1 THEN argument(a.p, a.n)
    ELSE LET b == argumentTurns(a, n \div 4) IN
         IF ~b.more THEN b
         ELSE LET c == argumentTurns(b, n \div 4) IN
              IF ~c.more THEN c
              ELSE LET d == argumentTurns(c, n \div 4) IN
                   IF ~d.more THEN d ELSE argumentTurns(d, n \div 4)

\* the loop of finishCall, run until it breaks or returns
argumentList(a, n) ==
    LET b == argumentTurns(a, n) IN
    IF b.more THEN argumentList(b, 4 * n) ELSE b

finishCall(p, callee) ==
    LET p1 == [p EXCEPT !.disableCommaExpr = TRUE]
        args == IF ~check(p1, "RIGHT_PAREN") THEN argumentList(Ok(p1, <<>>) @@ [more |-> TRUE], 1)
                ELSE Ok(p1, <<>>)
    IN  IF args.err THEN Fail(args.p)
        ELSE LET paren == consume(args.p, "RIGHT_PAREN", "Expect ')' after arguments.") IN
             IF paren.err THEN Fail(paren.p)
             ELSE Ok([paren.p EXCEPT !.disableCommaExpr = FALSE],
                     [k |-> "Call", callee |-> callee, paren |-> args.p.current,
                      closing |-> paren.n.lexeme, arguments |-> args.n])

callLoop(p, expr) ==
    IF match(p, {"LEFT_PAREN"}) THEN
        LET c == finishCall(advance(p), expr) IN
        IF c.err THEN Fail(c.p) ELSE callLoop(c.p, c.n)
    ELSE IF match(p, {"DOT"}) THEN
        LET name == consume(advance(p), "IDENTIFIER", "Expect property name after '.'.") IN
        IF name.err THEN Fail(name.p)
        ELSE callLoop(name.p, [k |-> "Get", object |-> expr, name |-> name.n.lexeme])
    ELSE Ok(p, expr)

call(p) ==
    LET e == rule("primary", p) IN
    IF e.err THEN Fail(e.p) ELSE callLoop(e.p, e.n)

unary(p) ==
    IF match(p, {"BANG", "MINUS"}) THEN
        LET right == rule("unary", advance(p)) IN
        IF right.err THEN Fail(right.p)
        ELSE Ok(right.p, [k |-> "Unary", operator |-> peek(p).type, right |-> right.n])
    ELSE rule("call", p)

factorLoop(p, expr) ==
    IF match(p, {"SLASH", "STAR"}) THEN
        LET right == rule("unary", advance(p)) IN
        IF right.err THEN Fail(right.p)
        ELSE factorLoop(right.p, [k |-> "Binary", left |-> expr, operator |-> peek(p).type,
                                  right |-> right.n])
    ELSE Ok(p, expr)
factor(p) ==
    LET e == rule("unary", p) IN IF e.err THEN Fail(e.p) ELSE factorLoop(e.p, e.n)

termLoop(p, expr) ==
    IF match(p, {"MINUS", "PLUS"}) THEN
        LET right == rule("factor", advance(p)) IN
        IF right.err THEN Fail(right.p)
        ELSE termLoop(right.p, [k |-> "Binary", left |-> expr, operator |-> peek(p).type,
                                right |-> right.n])
    ELSE Ok(p, expr)
term(p) ==
    LET e == rule("factor", p) IN IF e.err THEN Fail(e.p) ELSE termLoop(e.p, e.n)

comparisonLoop(p, expr) ==
    IF match(p, {"GREATER", "GREATER_EQUAL", "LESS", "LESS_EQUAL"}) THEN
        LET right == rule("term", advance(p)) IN
        IF right.err THEN Fail(right.p)
        ELSE comparisonLoop(right.p, [k |-> "Binary", left |-> expr,
                                      operator |-> peek(p).type, right |-> right.n])
    ELSE Ok(p, expr)
comparison(p) ==
    LET e == rule("term", p) IN IF e.err THEN Fail(e.p) ELSE comparisonLoop(e.p, e.n)

equalityLoop(p, expr) ==
    IF match(p, {"BANG_EQUAL", "EQUAL_EQUAL"}) THEN
        LET right == rule("comparison", advance(p)) IN
        IF right.err THEN Fail(right.p)
        ELSE equalityLoop(right.p, [k |-> "Binary", left |-> expr,
                                    operator |-> peek(p).type, right |-> right.n])
    ELSE Ok(p, expr)
equality(p) ==
    LET e == rule("comparison", p) IN IF e.err THEN Fail(e.p) ELSE equalityLoop(e.p, e.n)

andLoop(p, expr) ==
    IF match(p, {"AND"}) THEN
        LET right == rule("equality", advance(p)) IN
        IF right.err THEN Fail(right.p)
        ELSE andLoop(right.p, [k |-> "Logical", left |-> expr, operator |-> "AND",
                               right |-> right.n])
    ELSE Ok(p, expr)
and(p) ==
    LET e == rule("equality", p) IN IF e.err THEN Fail(e.p) ELSE andLoop(e.p, e.n)

orLoop(p, expr) ==
    IF match(p, {"OR"}) THEN
        LET right == rule("and", advance(p)) IN
        IF right.err THEN Fail(right.p)
        ELSE orLoop(right.p, [k |-> "Logical", left |-> expr, operator |-> "OR",
                              right |-> right.n])
    ELSE Ok(p, expr)
or(p) ==
    LET e == rule("and", p) IN IF e.err THEN Fail(e.p) ELSE orLoop(e.p, e.n)

conditionalLoop(p, expr) ==
    IF match(p, {"QUESTION_MARK"}) THEN
        LET thenBranch == rule("expression", advance(p)) IN
        IF thenBranch.err THEN Fail(thenBranch.p)
        ELSE LET colon == consume(thenBranch.p, "COLON",
                                  "Expect ':' after then branch of conditional expression.") IN
             IF colon.err THEN Fail(colon.p)
             ELSE LET elseBranch == rule("conditional", colon.p) IN
                  IF elseBranch.err THEN Fail(elseBranch.p)
                  ELSE conditionalLoop(elseBranch.p,
                           [k |-> "Conditional", cond |-> expr, consequent |-> thenBranch.n,
                            alternate |-> elseBranch.n])
    ELSE Ok(p, expr)
conditional(p) ==
    LET e == rule("or", p) IN IF e.err THEN Fail(e.p) ELSE conditionalLoop(e.p, e.n)

commaLoop(p, expr) ==
    IF match(p, {"COMMA"}) THEN
        LET right == rule("conditional", advance(p)) IN
        IF right.err THEN Fail(right.p)
        ELSE commaLoop(right.p, [k |-> "Binary", left |-> expr, operator |-> "COMMA",
                                 right |-> right.n])
    ELSE Ok(p, expr)
comma(p) ==
    LET e == rule("conditional", p) IN
    IF e.err THEN Fail(e.p)
    ELSE IF ~e.p.disableCommaExpr THEN commaLoop(e.p, e.n)
    ELSE Ok(e.p, e.n)

assignment(p) ==
    LET e == rule("comma", p) IN
    IF e.err THEN Fail(e.p)
    ELSE IF match(e.p, {"EQUAL"}) THEN
        LET val == rule("assignment", advance(e.p)) IN
        IF val.err THEN Fail(val.p)
        ELSE IF e.n.k = "Variable" THEN
            Ok(val.p, [k |-> "Assign", name |-> e.n.name, id |-> e.n.id, value |-> val.n])
        ELSE IF e.n.k = "Get" THEN
            Ok(val.p, [k |-> "Set", object |-> e.n.object, name |-> e.n.name, value |-> val.n])
        ELSE Fail(error(val.p, peek(e.p), "Invalid assignment target."))
    ELSE Ok(e.p, e.n)

expression(p) == rule("assignment", p)

printStatement(p) ==
    LET val == rule("expression", p) IN
    IF val.err THEN Fail(val.p)
    ELSE LET semi == consume(val.p, "SEMICOLON", "Expect ';' after value.") IN
         IF semi.err THEN Fail(semi.p)
         ELSE Ok(semi.p, [k |-> "Print", expression |-> val.n])

expressionStatement(p) ==
    LET expr == rule("expression", p) IN
    IF expr.err THEN Fail(expr.p)
    ELSE IF expr.p.allowExpression /\ isAtEnd(expr.p) THEN
        Ok([expr.p EXCEPT !.foundExpression = TRUE], [k |-> "Expression", expression |-> expr.n])
    ELSE LET semi == consume(expr.p, "SEMICOLON", "Expect ';' after expression.") IN
         IF semi.err THEN Fail(semi.p)
         ELSE Ok(semi.p, [k |-> "Expression", expression |-> expr.n])

blockLoop(p, stmts) ==
    IF ~check(p, "RIGHT_BRACE") /\ ~isAtEnd(p) THEN
        LET stmt == rule("declaration", p) IN
        IF stmt.err THEN Fail(stmt.p) ELSE blockLoop(stmt.p, Append(stmts, stmt.n))
    ELSE Ok(p, stmts)
block(p) ==
    LET stmts == blockLoop(p, <<>>) IN
    IF stmts.err THEN Fail(stmts.p)
    ELSE LET brace == consume(stmts.p, "RIGHT_BRACE", "Expect '}' after block.") IN
         IF brace.err THEN Fail(brace.p) ELSE Ok(brace.p, stmts.n)

ifStatement(p) ==
    LET lp == consume(p, "LEFT_PAREN", "Expect '(' after 'if'.") IN
    IF lp.err THEN Fail(lp.p) ELSE
    LET condition == rule("expression", lp.p) IN
    IF condition.err THEN Fail(condition.p) ELSE
    LET rp == consume(condition.p, "RIGHT_PAREN", "Expect ')' after if condition.") IN
    IF rp.err THEN Fail(rp.p) ELSE
    LET thenBranch == rule("statement", rp.p) IN
    IF thenBranch.err THEN Fail(thenBranch.p) ELSE
    IF match(thenBranch.p, {"ELSE"}) THEN
        LET elseBranch == rule("statement", advance(thenBranch.p)) IN
        IF elseBranch.err THEN Fail(elseBranch.p)
        ELSE Ok(elseBranch.p, [k |-> "If", condition |-> condition.n,
                               thenBranch |-> thenBranch.n, elseBranch |-> elseBranch.n])
    ELSE Ok(thenBranch.p, [k |-> "If", condition |-> condition.n,
                           thenBranch |-> thenBranch.n, elseBranch |-> NoNode])

\* the record of a loop statement: loopDepth before it and after it
loopNoted(p, before, failed) ==
    [p EXCEPT !.trace = Append(@, [e |-> "loop", before |-> before, after |-> p.loopDepth,
                                   failed |-> failed])]

\* a failed body that leaves loopDepth as it is
loopFailedKeepsDepth(p, before) == Fail(loopNoted(p, before, TRUE))

\* forStatement lines 362-365, whileStatement lines 404-407: the body failed.
\* loopDepth is a uint32; a value below 0 here stands for its wrap-around.
loopFailed(p, before) == Fail(loopNoted([p EXCEPT !.loopDepth = @ - 1], before, TRUE))

\* forStatement line 384, whileStatement line 409: the body was parsed
loopParsed(p, before) == loopNoted([p EXCEPT !.loopDepth = @ - 1], before, FALSE)

whileStatement(p) ==
    LET lp == consume(p, "LEFT_PAREN", "Expect '(' after 'while'.") IN
    IF lp.err THEN Fail(lp.p) ELSE
    LET condition == rule("expression", lp.p) IN
    IF condition.err THEN Fail(condition.p) ELSE
    LET rp == consume(condition.p, "RIGHT_PAREN", "Expect ')' after condition.") IN
    IF rp.err THEN Fail(rp.p) ELSE
    LET body == rule("statement", [rp.p EXCEPT !.loopDepth = @ + 1]) IN
    IF body.err THEN loopFailed(body.p, p.loopDepth)
    ELSE Ok(loopParsed(body.p, p.loopDepth),
            [k |-> "While", condition |-> condition.n, body |-> body.n])

\* a loop whose increment runs before the body
forLoopIncrementFirst(initializer, condition, increment, body) ==
    LET body1 == IF increment.k # "none"
                 THEN [k |-> "Block",
                       statements |-> <<[k |-> "Expression", expression |-> increment], body>>]
                 ELSE body
        cond1 == IF condition.k = "none" THEN [k |-> "Literal", value |-> BoolValue(TRUE)]
                 ELSE condition
        body2 == [k |-> "While", condition |-> cond1, body |-> body1]
    IN  IF initializer.k # "none"
        THEN [k |-> "Block", statements |-> <<initializer, body2>>]
        ELSE body2

\* forStatement lines 367-382: the while loop a for statement is turned into
forLoop(initializer, condition, increment, body) ==
    LET body1 == IF increment.k # "none"
                 THEN [k |-> "Block",
                       statements |-> <<body, [k |-> "Expression", expression |-> increment]>>]
                 ELSE body
        cond1 == IF condition.k = "none" THEN [k |-> "Literal", value |-> BoolValue(TRUE)]
                 ELSE condition
        body2 == [k |-> "While", condition |-> cond1, body |-> body1]
    IN  IF initializer.k # "none"
        THEN [k |-> "Block", statements |-> <<initializer, body2>>]
        ELSE body2

forStatement(p) ==
    LET lp == consume(p, "LEFT_PAREN", "Expect '(' after 'for'.") IN
    IF lp.err THEN Fail(lp.p) ELSE
    LET initializer ==
            IF match(lp.p, {"SEMICOLON"}) THEN Ok(advance(lp.p), NoNode)
            ELSE IF match(lp.p, {"VAR"}) THEN rule("varDeclaration", advance(lp.p))
            ELSE rule("expressionStatement", lp.p) IN
    IF initializer.err THEN Fail(initializer.p) ELSE
    LET condition == IF ~check(initializer.p, "SEMICOLON") THEN rule("expression", initializer.p)
                     ELSE Ok(initializer.p, NoNode) IN
    IF condition.err THEN Fail(condition.p) ELSE
    LET semi == consume(condition.p, "SEMICOLON", "Expect ';' after loop condition.") IN
    IF semi.err THEN Fail(semi.p) ELSE
    LET increment == IF ~check(semi.p, "RIGHT_PAREN") THEN rule("expression", semi.p)
                     ELSE Ok(semi.p, NoNode) IN
    IF increment.err THEN Fail(increment.p) ELSE
    LET rp == consume(increment.p, "RIGHT_PAREN", "Expect ')' after for clauses.") IN
    IF rp.err THEN Fail(rp.p) ELSE
    LET body == rule("statement", [rp.p EXCEPT !.loopDepth = @ + 1]) IN
    IF body.err THEN loopFailed(body.p, p.loopDepth) ELSE
    Ok(loopParsed(body.p, p.loopDepth),
       forLoop(initializer.n, condition.n, increment.n, body.n))

\* the record of a break keyword: the loopDepth it met and whether it was reported
breakNoted(p, rejected) ==
    [p EXCEPT !.trace = Append(@, [e |-> "break", depth |-> p.loopDepth,
                                   rejected |-> rejected])]

breakStatement(p) ==
    IF p.loopDepth = 0 THEN
        Fail(error(breakNoted(p, TRUE), previous(p), "Must be inside a loop to use 'break'."))
    ELSE LET semi == consume(breakNoted(p, FALSE), "SEMICOLON", "Expect ';' after 'break'.") IN
         IF semi.err THEN Fail(semi.p) ELSE Ok(semi.p, [k |-> "Break"])

returnStatement(p) ==
    LET value == IF ~check(p, "SEMICOLON") THEN rule("expression", p) ELSE Ok(p, NoNode) IN
    IF value.err THEN Fail(value.p)
    ELSE LET semi == consume(value.p, "SEMICOLON", "Expect ';' after return value.") IN
         IF semi.err THEN Fail(semi.p)
         ELSE Ok(semi.p, [k |-> "Return", keyword |-> p.current, value |-> value.n])

statement(p) ==
    IF match(p, {"PRINT"}) THEN rule("printStatement", advance(p))
    ELSE IF match(p, {"LEFT_BRACE"}) THEN
        LET stmts == rule("block", advance(p)) IN
        IF stmts.err THEN Fail(stmts.p)
        ELSE Ok(stmts.p, [k |-> "Block", statements |-> stmts.n])
    ELSE IF match(p, {"IF"}) THEN rule("ifStatement", advance(p))
    ELSE IF match(p, {"WHILE"}) THEN rule("whileStatement", advance(p))
    ELSE IF match(p, {"FOR"}) THEN rule("forStatement", advance(p))
    ELSE IF match(p, {"BREAK"}) THEN rule("breakStatement", advance(p))
    ELSE IF match(p, {"RETURN"}) THEN rule("returnStatement", advance(p))
    ELSE rule("expressionStatement", p)

varDeclaration(p) ==
    LET name == consume(p, "IDENTIFIER", "Expect variable name.") IN
    IF name.err THEN Fail(name.p) ELSE
    LET initializer == IF match(name.p, {"EQUAL"}) THEN rule("expression", advance(name.p))
                       ELSE Ok(name.p, NoNode) IN
    IF initializer.err THEN Fail(initializer.p) ELSE
    LET semi == consume(initializer.p, "SEMICOLON", "Expect ';' after variable declaration.") IN
    IF semi.err THEN Fail(semi.p)
    ELSE Ok(semi.p, [k |-> "Var", name |-> name.n.lexeme, initializer |-> initializer.n])

\* the limit of functionBody: lines 177-179
MaxParameters == 8
tooManyParametersAfter(parameters) == Len(parameters) > MaxParameters
tooManyParameters(parameters) == Len(parameters) >= MaxParameters

parameterList(p, parameters) ==
    IF tooManyParameters(parameters) THEN
        Fail(error(p, peek(p), "Can't have more than 8 parameters."))
    ELSE LET param == consume(p, "IDENTIFIER", "Expect parameter name.") IN
         IF param.err THEN Fail(param.p)
         ELSE IF match(param.p, {"COMMA"})
              THEN parameterList(advance(param.p), Append(parameters, param.n.lexeme))
              ELSE Ok(param.p, Append(parameters, param.n.lexeme))

functionBody(p, kind) ==
    LET lp == consume(p, "LEFT_PAREN", IF kind = "method" THEN "Expect '(' after method name."
                                        ELSE "Expect '(' after function name.") IN
    IF lp.err THEN Fail(lp.p) ELSE
    LET parameters == IF ~check(lp.p, "RIGHT_PAREN") THEN parameterList(lp.p, <<>>)
                      ELSE Ok(lp.p, <<>>) IN
    IF parameters.err THEN Fail(parameters.p) ELSE
    LET rp == consume(parameters.p, "RIGHT_PAREN", "Expect ')' after parameters.") IN
    IF rp.err THEN Fail(rp.p) ELSE
    LET lb == consume(rp.p, "LEFT_BRACE", IF kind = "method" THEN "Expect '{' before method body."
                                           ELSE "Expect '{' before function body.") IN
    IF lb.err THEN Fail(lb.p) ELSE
    LET body == rule("block", lb.p) IN
    IF body.err THEN Fail(body.p)
    ELSE Ok(body.p, [k |-> "FunctionExpr", parameters |-> parameters.n, body |-> body.n,
                     id |-> p.current])

function(p, kind) ==
    LET name == consume(p, "IDENTIFIER", IF kind = "method" THEN "Expect method name."
                                          ELSE "Expect function name.") IN
    IF name.err THEN Fail(name.p) ELSE
    LET fnBody == functionBody(name.p, kind) IN
    IF fnBody.err THEN Fail(fnBody.p)
    ELSE Ok(fnBody.p, [k |-> "Function", name |-> name.n.lexeme, function |-> fnBody.n])

classMethods(p, methods) ==
    IF ~check(p, "RIGHT_BRACE") /\ ~isAtEnd(p) THEN
        LET method == rule("method", p) IN
        IF method.err THEN Fail(method.p)
        ELSE classMethods(method.p, Append(methods, method.n))
    ELSE Ok(p, methods)

classDeclaration(p) ==
    LET name == consume(p, "IDENTIFIER", "Expect class name.") IN
    IF name.err THEN Fail(name.p) ELSE
    LET lb == consume(name.p, "LEFT_BRACE", "Expect '{' before class body.") IN
    IF lb.err THEN Fail(lb.p) ELSE
    LET methods == classMethods(lb.p, <<>>) IN
    IF methods.err THEN Fail(methods.p) ELSE
    LET rb == consume(methods.p, "RIGHT_BRACE", "Expect '}' after class body.") IN
    IF rb.err THEN Fail(rb.p)
    ELSE Ok(rb.p, [k |-> "Class", name |-> name.n.lexeme, methods |-> methods.n])

declaration(p) ==
    IF match(p, {"CLASS"}) THEN
        LET classDecl == rule("classDeclaration", advance(p)) IN
        IF classDecl.err THEN Fail(classDecl.p) ELSE classDecl
    ELSE IF check(p, "FUN") /\ checkNext(p, "IDENTIFIER") THEN
        LET fn == rule("function", advance(p)) IN
        IF fn.err THEN Fail(synchronize(fn.p)) ELSE fn
    ELSE IF match(p, {"VAR"}) THEN
        LET varDecl == rule("varDeclaration", advance(p)) IN
        IF varDecl.err THEN Fail(synchronize(varDecl.p)) ELSE varDecl
    ELSE rule("statement", p)

\* a rule of the grammar, called by its name: the recursive descent of parser.go
rule(name, p) ==
    CASE name = "primary" -> primary(p)
      [] name = "expression" -> expression(p)
      [] name = "call" -> call(p)
      [] name = "unary" -> unary(p)
      [] name = "factor" -> factor(p)
      [] name = "term" -> term(p)
      [] name = "comparison" -> comparison(p)
      [] name = "equality" -> equality(p)
      [] name = "and" -> and(p)
      [] name = "or" -> or(p)
      [] name = "conditional" -> conditional(p)
      [] name = "comma" -> comma(p)
      [] name = "assignment" -> assignment(p)
      [] name = "printStatement" -> printStatement(p)
      [] name = "expressionStatement" -> expressionStatement(p)
      [] name = "block" -> block(p)
      [] name = "ifStatement" -> ifStatement(p)
      [] name = "whileStatement" -> whileStatement(p)
      [] name = "forStatement" -> forStatement(p)
      [] name = "breakStatement" -> breakStatement(p)
      [] name = "returnStatement" -> returnStatement(p)
      [] name = "statement" -> statement(p)
      [] name = "varDeclaration" -> varDeclaration(p)
      [] name = "classDeclaration" -> classDeclaration(p)
      [] name = "declaration" -> declaration(p)
      [] name = "function" -> function(p, "function")
      [] name = "method" -> function(p, "method")
      [] name = "functionBody" -> functionBody(p, "function")

(***************************************************************************)
(* Token lists given to the parser.  Lex turns a list of lexemes into      *)
(* tokens of the kinds parser.go names.                                    *)
(***************************************************************************)
Punctuation ==
    [x \in {"(", ")", "{", "}", ",", ".", "-", "+", ";", "/", "*", "?", ":",
            "!", "!=", "=", "==", ">", ">=", "<", "<="} |->
        CASE x = "(" -> "LEFT_PAREN" [] x = ")" -> "RIGHT_PAREN"
          [] x = "{" -> "LEFT_BRACE" [] x = "}" -> "RIGHT_BRACE"
          [] x = "," -> "COMMA" [] x = "." -> "DOT" [] x = "-" -> "MINUS"
          [] x = "+" -> "PLUS" [] x = ";" -> "SEMICOLON" [] x = "/" -> "SLASH"
          [] x = "*" -> "STAR" [] x = "?" -> "QUESTION_MARK" [] x = ":" -> "COLON"
          [] x = "!" -> "BANG" [] x = "!=" -> "BANG_EQUAL" [] x = "=" -> "EQUAL"
          [] x = "==" -> "EQUAL_EQUAL" [] x = ">" -> "GREATER"
          [] x = ">=" -> "GREATER_EQUAL" [] x = "<" -> "LESS" [] x = "<=" -> "LESS_EQUAL"]
ParserKeywords ==
    [x \in {"and", "break", "class", "else", "false", "fun", "for", "if", "nil", "or",
            "print", "return", "super", "this", "true", "var", "while"} |->
        CASE x = "and" -> "AND" [] x = "break" -> "BREAK" [] x = "class" -> "CLASS"
          [] x = "else" -> "ELSE" [] x = "false" -> "FALSE" [] x = "fun" -> "FUN"
          [] x = "for" -> "FOR" [] x = "if" -> "IF" [] x = "nil" -> "NIL" [] x = "or" -> "OR"
          [] x = "print" -> "PRINT" [] x = "return" -> "RETURN" [] x = "super" -> "SUPER"
          [] x = "this" -> "THIS" [] x = "true" -> "TRUE" [] x = "var" -> "VAR"
          [] x = "while" -> "WHILE"]
Digits == [x \in {"0", "1", "2", "3", "4", "5", "6", "7", "8", "9"} |->
        CASE x = "0" -> 0 [] x = "1" -> 1 [] x = "2" -> 2 [] x = "3" -> 3 [] x = "4" -> 4
          [] x = "5" -> 5 [] x = "6" -> 6 [] x = "7" -> 7 [] x = "8" -> 8 [] x = "9" -> 9]
Word(x) ==
    IF x \in DOMAIN Punctuation THEN Token(Punctuation[x], x, NilValue)
    ELSE IF x \in DOMAIN ParserKeywords THEN Token(ParserKeywords[x], x, NilValue)
    ELSE IF x \in DOMAIN Digits THEN Token("NUMBER", x, NumberValue(Digits[x]))
    ELSE Token("IDENTIFIER", x, NilValue)
Str(x) == <<Token("STRING", x, StringValue(x))>>
EndOfFile == <<Token("EOF", "", NilValue)>>
Lex(words) == [i \in 1..Len(words) |-> Word(words[i])]

(***************************************************************************)
(* scanner.go.  source is the text as a sequence of bytes, each a string   *)
(* of one character; sc holds Scanner.start, current, line and tokens, and *)
(* what the scanner reported.  An index of Go counts from 0: the byte      *)
(* source[i] of Go is source[i + 1] here.                                  *)
(***************************************************************************)
keywords ==
    [x \in {"and", "class", "else", "false", "for", "fun", "if", "nil", "or", "print",
            "return", "super", "this", "true", "var", "while"} |-> ParserKeywords[x]]

NewScanner ==
    [start |-> 0, current |-> 0, line |-> 1, tokens |-> <<>>, reported |-> <<>>,
     panic |-> FALSE]

NUL == "NUL"
Letters ==
    {"a", "b", "c", "d", "e", "f", "g", "h", "i", "j", "k", "l", "m", "n", "o", "p", "q",
     "r", "s", "t", "u", "v", "w", "x", "y", "z", "A", "B", "C", "D", "E", "F", "G", "H",
     "I", "J", "K", "L", "M", "N", "O", "P", "Q", "R", "S", "T", "U", "V", "W", "X", "Y",
     "Z", "_"}
isDigit(c) == c \in DOMAIN Digits
isAlpha(c) == c \in Letters
isAlphaNumeric(c) == isAlpha(c) \/ isDigit(c)

scIsAtEnd(sc) == sc.current >= Len(source)
scAdvance(sc) == [sc EXCEPT !.current = @ + 1]
scPeek(sc) == IF scIsAtEnd(sc) THEN NUL ELSE source[sc.current + 1]
scPeekNext(sc) == IF sc.current + 1 >= Len(source) THEN NUL ELSE source[sc.current + 2]
\* match: whether the next byte is the expected one; the caller advances
scMatch(sc, expected) == scPeek(sc) = expected

\* sc.source[from:to]
RECURSIVE Slice(_, _)
Slice(from, to) == IF from >= to THEN "" ELSE source[from + 1] \o Slice(from + 1, to)

\* ErrorPrinter.Error, called by the scanner
scError(sc, message) ==
    [sc EXCEPT !.reported = Append(@, [where |-> "", message |-> message])]

addTokenWithLiteral(sc, type, literal) ==
    [sc EXCEPT !.tokens = Append(@, Token(type, IF type # "EOF" THEN Slice(sc.start, sc.current)
                                                 ELSE "", literal))]
addToken(sc, type) == addTokenWithLiteral(sc, type, NilValue)

\* the loop of a comment that goes until the end of the line
RECURSIVE lineComment(_)
lineComment(sc) ==
    IF scPeek(sc) # "\n" /\ ~scIsAtEnd(sc) THEN lineComment(scAdvance(sc)) ELSE sc

RECURSIVE multilineComment(_)
multilineComment(sc) ==
    IF ~scIsAtEnd(sc) THEN
        IF scPeek(sc) = "*" /\ scPeekNext(sc) = "/" THEN scAdvance(scAdvance(sc))
        ELSE multilineComment(scAdvance([sc EXCEPT !.line = IF scPeek(sc) = "\n" THEN @ + 1
                                                             ELSE @]))
    ELSE scError(sc, "Multiline comment was not closed")

RECURSIVE stringLoop(_)
stringLoop(sc) ==
    IF scPeek(sc) # "\"" /\ ~scIsAtEnd(sc) THEN
        stringLoop(scAdvance([sc EXCEPT !.line = IF scPeek(sc) = "\n" THEN @ + 1 ELSE @]))
    ELSE sc
\* the closing quote and the token of a string whose characters were passed
stringEnd(sc) ==
    IF scIsAtEnd(sc) THEN scError(sc, "Unterminated string.")
    ELSE addTokenWithLiteral(scAdvance(sc), "STRING",
                             StringValue(Slice(sc.start + 1, sc.current)))
string(sc) == stringEnd(stringLoop(sc))

\* for isDigit(sc.peek()) { sc.advance() }: current ends before the first byte
\* from current on that is no digit, or at the end of the source
digits(sc) ==
    LET rest == {j \in (sc.current + 1)..Len(source) : ~isDigit(source[j])} IN
    [sc EXCEPT !.current = IF rest = {} THEN Len(source)
                           ELSE (CHOOSE j \in rest : \A i \in rest : j <= i) - 1]

\* the number the digits source[from:to] write
RECURSIVE Decimal(_, _)
Decimal(from, to) ==
    IF from >= to THEN 0 ELSE 10 * Decimal(from, to - 1) + Digits[source[to]]
RECURSIVE Power10(_)
Power10(k) == IF k = 0 THEN 1 ELSE 10 * Power10(k - 1)

\* strconv.ParseFloat of source[start:current], whose point, if any, is at byte point
ParseFloat(sc, point) ==
    IF point = sc.current THEN NumberValue(Decimal(sc.start, sc.current))
    ELSE Float64(Decimal(sc.start, point) * Power10(sc.current - point - 1)
                    + Decimal(point + 1, sc.current),
                 Power10(sc.current - point - 1))

\* the least whole number that rounds to no float64, 2^1024 - 2^970, digit by digit
Overflow64 ==
    <<"1", "7", "9", "7", "6", "9", "3", "1", "3", "4", "8", "6", "2", "3", "1", "5", "8",
      "0", "7", "9", "3", "7", "2", "8", "9", "7", "1", "4", "0", "5", "3", "0", "3", "4",
      "1", "5", "0", "7", "9", "9", "3", "4", "1", "3", "2", "7", "1", "0", "0", "3", "7",
      "8", "2", "6", "9", "3", "6", "1", "7", "3", "7", "7", "8", "9", "8", "0", "4", "4",
      "4", "9", "6", "8", "2", "9", "2", "7", "6", "4", "7", "5", "0", "9", "4", "6", "6",
      "4", "9", "0", "1", "7", "9", "7", "7", "5", "8", "7", "2", "0", "7", "0", "9", "6",
      "3", "3", "0", "2", "8", "6", "4", "1", "6", "6", "9", "2", "8", "8", "7", "9", "1",
      "0", "9", "4", "6", "5", "5", "5", "5", "4", "7", "8", "5", "1", "9", "4", "0", "4",
      "0", "2", "6", "3", "0", "6", "5", "7", "4", "8", "8", "6", "7", "1", "5", "0", "5",
      "8", "2", "0", "6", "8", "1", "9", "0", "8", "9", "0", "2", "0", "0", "0", "7", "0",
      "8", "3", "8", "3", "6", "7", "6", "2", "7", "3", "8", "5", "4", "8", "4", "5", "8",
      "1", "7", "7", "1", "1", "5", "3", "1", "7", "6", "4", "4", "7", "5", "7", "3", "0",
      "2", "7", "0", "0", "6", "9", "8", "5", "5", "5", "7", "1", "3", "6", "6", "9", "5",
      "9", "6", "2", "2", "8", "4", "2", "9", "1", "4", "8", "1", "9", "8", "6", "0", "8",
      "3", "4", "9", "3", "6", "4", "7", "5", "2", "9", "2", "7", "1", "9", "0", "7", "4",
      "1", "6", "8", "4", "4", "4", "3", "6", "5", "5", "1", "0", "7", "0", "4", "3", "4",
      "2", "7", "1", "1", "5", "5", "9", "6", "9", "9", "5", "0", "8", "0", "9", "3", "0",
      "4", "2", "8", "8", "0", "1", "7", "7", "9", "0", "4", "1", "7", "4", "4", "9", "7",
      "7", "9", "2">>
\* where the whole part source[start:point] has its first digit other than 0
Leading(sc, point) ==
    LET digit == {j \in (sc.start + 1)..point : source[j] # "0"} IN
    IF digit = {} THEN point + 1 ELSE CHOOSE j \in digit : \A i \in digit : j <= i
\* strconv.ParseFloat returns ErrRange: the number is Overflow64 or more
rangeError(sc, point) ==
    LET first == Leading(sc, point)
        length == point - first + 1 IN
    \/ length > Len(Overflow64)
    \/ /\ length = Len(Overflow64)
       /\ \A i \in 1..length :
             Digits[source[first + i - 1]] < Digits[Overflow64[i]] =>
                \E j \in 1..(i - 1) : Digits[source[first + j - 1]] > Digits[Overflow64[j]]

\* the token of a number whose last digit was passed, or the panic of lines 228-230
numberToken(sc, point) ==
    IF rangeError(sc, point) THEN [sc EXCEPT !.panic = TRUE]
    ELSE addTokenWithLiteral(sc, "NUMBER", ParseFloat(sc, point))

\* the fractional part and the token of a number whose whole part was passed
numberEnd(sc) ==
    IF scPeek(sc) = "." /\ isDigit(scPeekNext(sc))
    THEN numberToken(digits(scAdvance(sc)), sc.current)
    ELSE numberToken(sc, sc.current)
number(sc) == numberEnd(digits(sc))

RECURSIVE identifierLoop(_)
identifierLoop(sc) ==
    IF isAlphaNumeric(scPeek(sc)) THEN identifierLoop(scAdvance(sc)) ELSE sc
identifierEnd(sc) ==
    addToken(sc, IF Slice(sc.start, sc.current) \in DOMAIN keywords
                 THEN keywords[Slice(sc.start, sc.current)] ELSE "IDENTIFIER")
identifier(sc) == identifierEnd(identifierLoop(sc))

\* the token of an operator that may be followed by '='
oneOrTwo(sc, two, one) ==
    IF scMatch(sc, "=") THEN addToken(scAdvance(sc), two) ELSE addToken(sc, one)

\* scanToken after c := sc.advance()
scanCase(sc, c) ==
    CASE c = "(" -> addToken(sc, "LEFT_PAREN")
      [] c = ")" -> addToken(sc, "RIGHT_PAREN")
      [] c = "{" -> addToken(sc, "LEFT_BRACE")
      [] c = "}" -> addToken(sc, "RIGHT_BRACE")
      [] c = "," -> addToken(sc, "COMMA")
      [] c = "." -> addToken(sc, "DOT")
      [] c = "-" -> addToken(sc, "MINUS")
      [] c = "+" -> addToken(sc, "PLUS")
      [] c = ";" -> addToken(sc, "SEMICOLON")
      [] c = "*" -> addToken(sc, "STAR")
      [] c = "/" -> IF scMatch(sc, "/") THEN lineComment(scAdvance(sc))
                    ELSE IF scMatch(sc, "*") THEN multilineComment(scAdvance(sc))
                    ELSE addToken(sc, "SLASH")
      [] c = "!" -> oneOrTwo(sc, "BANG_EQUAL", "BANG")
      [] c = "=" -> oneOrTwo(sc, "EQUAL_EQUAL", "EQUAL")
      [] c = "<" -> oneOrTwo(sc, "LESS_EQUAL", "LESS")
      [] c = ">" -> oneOrTwo(sc, "GREATER_EQUAL", "GREATER")
      [] c \in {" ", "\r", "\t"} -> sc
      [] c = "\n" -> [sc EXCEPT !.line = @ + 1]
      [] c = "\"" -> string(sc)
      [] OTHER -> IF isDigit(c) THEN number(sc)
                  ELSE IF isAlpha(c) THEN identifier(sc)
                  ELSE scError(sc, "Unexpected character.")
scanToken(sc) == scanCase(scAdvance(sc), source[sc.current + 1])

(***************************************************************************)
(* Go maps: a TLA+ function whose domain is the set of keys present.       *)
(***************************************************************************)
EmptyMap == <<>>
Put(m, key, val) == [x \in DOMAIN m \cup {key} |-> IF x = key THEN val ELSE m[x]]

(***************************************************************************)
(* resolver.go.  r holds Resolver.scopes (stack.go: a slice, the innermost *)
(* scope last) and currentFunction, the side-table Interpreter.locals the  *)
(* resolver fills through Interpreter.resolve, and what it reported.  log  *)
(* records each resolveLocal: the node, the name, the names of every scope  *)
(* of the stack, and the side-table before and after.                      *)
(***************************************************************************)
NewResolver == [scopes |-> <<>>, currentFunction |-> "NONE", locals |-> EmptyMap,
                reported |-> <<>>, log |-> <<>>, trace |-> <<>>, panic |-> FALSE]

beginScope(r) == [r EXCEPT !.scopes = Append(@, EmptyMap)]
\* endScope: Pop (stack.go lines 17-21) indexes elements[len(elements)-1], which
\* panics on an empty stack
endScope(r) ==
    IF r.scopes = <<>>
    THEN [r EXCEPT !.panic = TRUE, !.trace = Append(@, [e |-> "endScope", depth |-> 0])]
    ELSE [r EXCEPT !.scopes = SubSeq(@, 1, Len(@) - 1),
                   !.trace = Append(@, [e |-> "endScope", depth |-> Len(r.scopes)])]
\* the record of a block or function resolved: the depth of the stack before and after
scoped(r, r1, kind) ==
    [r1 EXCEPT !.trace = Append(@, [e |-> "scope", kind |-> kind, before |-> Len(r.scopes),
                                    after |-> Len(r1.scopes)])]

\* a declare that looks for the name in every scope of the stack
declareInAnyScope(r, name) ==
    IF r.scopes = <<>> THEN r
    ELSE LET scope == r.scopes[Len(r.scopes)]
             r1 == IF \E i \in DOMAIN r.scopes : name \in DOMAIN r.scopes[i]
                   THEN [r EXCEPT !.reported = Append(@,
                            [where |-> name,
                             message |-> "Already variable with this name in this scope."])]
                   ELSE r
         IN  [r1 EXCEPT !.scopes[Len(r.scopes)] = Put(scope, name, FALSE)]

declare(r, name) ==
    IF r.scopes = <<>> THEN r
    ELSE LET scope == r.scopes[Len(r.scopes)]
             r1 == IF name \in DOMAIN scope
                   THEN [r EXCEPT !.reported = Append(@,
                            [where |-> name,
                             message |-> "Already variable with this name in this scope."])]
                   ELSE r
         IN  [r1 EXCEPT !.scopes[Len(r.scopes)] = Put(scope, name, FALSE)]

define(r, name) ==
    IF r.scopes = <<>> THEN r
    ELSE [r EXCEPT !.scopes[Len(r.scopes)] = Put(@, name, TRUE)]

\* Interpreter.resolve
resolve(r, id, depth) == [r EXCEPT !.locals = Put(@, id, depth)]

RECURSIVE resolveLocalFrom(_, _, _, _)
resolveLocalFrom(r, i, id, name) ==
    IF i < 1 THEN r
    ELSE IF name \in DOMAIN r.scopes[i] THEN resolve(r, id, Len(r.scopes) - i)
    ELSE resolveLocalFrom(r, i - 1, id, name)
\* a search that starts one scope outside the innermost
resolveLocalFromEnclosing(r, id, name) == resolveLocalFrom(r, Len(r.scopes) - 1, id, name)

resolveLocal(r, id, name) == resolveLocalFrom(r, Len(r.scopes), id, name)

\* the record of one resolveLocal that turned r into r1
noteLocal(r, r1, id, name) ==
    [r1 EXCEPT !.log = Append(@, [id |-> id, name |-> name,
                                  scopes |-> [i \in DOMAIN r.scopes |-> DOMAIN r.scopes[i]],
                                  before |-> r.locals, after |-> r1.locals])]

RECURSIVE resolveStatement(_, _), resolveExpression(_, _), resolveStatements(_, _),
          resolveExpressions(_, _), resolveFunction(_, _), declareParameters(_, _),
          resolveMethods(_, _), resolveClass(_, _), resolveProperty(_, _),
          resolveBlock(_, _)

declareParameters(r, parameters) ==
    IF parameters = <<>> THEN r
    ELSE declareParameters(define(declare(r, Head(parameters)), Head(parameters)),
                           Tail(parameters))

\* a resolveFunction that leaves currentFunction as the function set it
resolveFunctionKeeps(r, fn) ==
    LET r1 == beginScope([r EXCEPT !.currentFunction = "FUNCTION"])
        r2 == declareParameters(r1, fn.parameters)
        r3 == resolveStatements(r2, fn.body)
    IN  scoped(r, endScope(r3), "function")

resolveFunction(r, fn) ==
    LET enclosingFunction == r.currentFunction
        r1 == beginScope([r EXCEPT !.currentFunction = "FUNCTION"])
        r2 == declareParameters(r1, fn.parameters)
        r3 == resolveStatements(r2, fn.body)
    IN  scoped(r, [endScope(r3) EXCEPT !.currentFunction = enclosingFunction], "function")

resolveStatements(r, stmts) ==
    IF stmts = <<>> THEN r
    ELSE resolveStatements(resolveStatement(r, Head(stmts)), Tail(stmts))

resolveExpressions(r, exprs) ==
    IF exprs = <<>> THEN r
    ELSE resolveExpressions(resolveExpression(r, Head(exprs)), Tail(exprs))

\* a class: its name, then a scope that holds this around the methods
\* a block whose scope is not discarded
resolveBlockKeepsScope(r, stmt) ==
    scoped(r, resolveStatements(beginScope(r), stmt.statements), "block")

\* Resolver.VisitBlockStmt.  No visitor of the resolver returns an error, so
\* the return of lines 63-65 is never taken.
resolveBlock(r, stmt) ==
    scoped(r, endScope(resolveStatements(beginScope(r), stmt.statements)), "block")

resolveMethods(r, methods) ==
    IF methods = <<>> THEN r
    ELSE resolveMethods(resolveFunction(r, Head(methods).function), Tail(methods))

resolveClass(r, stmt) ==
    LET r1 == beginScope(define(declare(r, stmt.name), stmt.name))
        r2 == [r1 EXCEPT !.scopes[Len(r1.scopes)] = Put(@, "this", TRUE)]
    IN  endScope(resolveMethods(r2, stmt.methods))

\* this resolves like a variable; a property access resolves its operands
resolveProperty(r, expr) ==
    CASE expr.k = "This" -> noteLocal(r, resolveLocal(r, expr.id, "this"), expr.id, "this")
      [] expr.k = "Get" -> resolveExpression(r, expr.object)
      [] expr.k = "Set" -> resolveExpression(resolveExpression(r, expr.value), expr.object)

resolveStatement(r, stmt) ==
    CASE stmt.k = "Class" -> resolveClass(r, stmt)
      [] stmt.k = "Function" ->
            resolveFunction(define(declare(r, stmt.name), stmt.name), stmt.function)
      [] stmt.k = "Block" -> resolveBlock(r, stmt)
      [] stmt.k = "Var" ->
            LET r1 == declare(r, stmt.name)
                r2 == IF stmt.initializer.k # "none" THEN resolveExpression(r1, stmt.initializer)
                      ELSE r1
            IN  define(r2, stmt.name)
      [] stmt.k = "Break" -> r
      [] stmt.k = "While" ->
            resolveStatement(resolveExpression(r, stmt.condition), stmt.body)
      [] stmt.k = "Return" ->
            IF r.currentFunction = "NONE" THEN
                [r EXCEPT !.reported = Append(@,
                    [where |-> "return", message |-> "Can't return from top-level code."])]
            ELSE IF stmt.value.k # "none" THEN resolveExpression(r, stmt.value)
            ELSE r
      [] stmt.k = "Print" -> resolveExpression(r, stmt.expression)
      [] stmt.k = "If" ->
            LET r1 == resolveStatement(resolveExpression(r, stmt.condition), stmt.thenBranch)
            IN  IF stmt.elseBranch.k # "none" THEN resolveStatement(r1, stmt.elseBranch)
                ELSE r1
      [] stmt.k = "Expression" -> resolveExpression(r, stmt.expression)

resolveExpression(r, expr) ==
    CASE expr.k \in {"This", "Get", "Set"} -> resolveProperty(r, expr)
      [] expr.k = "Assign" ->
            LET r1 == resolveExpression(r, expr.value)
            IN  noteLocal(r1, resolveLocal(r1, expr.id, expr.name), expr.id, expr.name)
      [] expr.k = "Variable" ->
            LET r1 == IF /\ r.scopes # <<>>
                         /\ expr.name \in DOMAIN r.scopes[Len(r.scopes)]
                         /\ ~r.scopes[Len(r.scopes)][expr.name]
                      THEN [r EXCEPT !.reported = Append(@,
                               [where |-> expr.name,
                                message |-> "Can't read local variable in its own initializer."])]
                      ELSE r
            IN  noteLocal(r1, resolveLocal(r1, expr.id, expr.name), expr.id, expr.name)
      [] expr.k = "FunctionExpr" -> resolveFunction(r, expr)
      [] expr.k = "Conditional" ->
            resolveExpression(resolveExpression(resolveExpression(r, expr.cond),
                                                expr.consequent), expr.alternate)
      [] expr.k = "Unary" -> resolveExpression(r, expr.right)
      [] expr.k = "Logical" -> resolveExpression(resolveExpression(r, expr.left), expr.right)
      [] expr.k = "Literal" -> r
      [] expr.k = "Grouping" -> resolveExpression(r, expr.expression)
      [] expr.k = "Call" -> resolveExpressions(resolveExpression(r, expr.callee), expr.arguments)
      [] expr.k = "Binary" -> resolveExpression(resolveExpression(r, expr.left), expr.right)

(***************************************************************************)
(* The evaluator: environment.go, lox_function.go, interpreter.go.         *)
(*                                                                         *)
(* st is the Interpreter together with the Go heap it reaches and the Go   *)
(* call stack:                                                             *)
(*   envs         every Environment allocated, [values, enclosing]; an     *)
(*                *Environment is an index into envs, 0 is the nil pointer *)
(*   environment  Interpreter.environment                                  *)
(*   globals      Interpreter.globals                                      *)
(*   locals       Interpreter.locals                                       *)
(*   out          the lines written to stdout                              *)
(*   allocated    the number of LoxFunction and LoxClass objects allocated *)
(*   instances    every LoxInstance allocated, [class, fields]; a          *)
(*                *LoxInstance is an index into instances                  *)
(*   callStack    the LoxFunction.Call invocations that have not returned  *)
(*   val, err     the (interface{}, error) pair a visitor returns          *)
(*   executed     the statements executed and expressions evaluated since  *)
(*                the source unit was read                                 *)
(*   log          what the evaluator did, in order: variable accesses,     *)
(*                function objects made, calls, returns of executeBlock,   *)
(*                runtime errors made, callees about to be applied, call   *)
(*                expressions entered and left                             *)
(* err.k is "none" (nil), "runtime" (a runtimeError), "break" (a           *)
(* breakError), "return" (a returnError) or "panic" (a Go run-time panic). *)
(***************************************************************************)
NoError == [k |-> "none"]
RuntimeError(st, token, message) ==
    [st EXCEPT !.err = [k |-> "runtime", token |-> token, message |-> message],
               !.val = NilValue,
               !.log = Append(@, [e |-> "raise", token |-> token, message |-> message])]
Panic(st, message) == [st EXCEPT !.err = [k |-> "panic", message |-> message], !.val = NilValue]
Return(st, v) == [st EXCEPT !.val = v, !.err = NoError]
Failed(st) == st.err.k # "none"

NewEnvironment(st, enclosing) ==
    [st EXCEPT !.envs = Append(@, [values |-> EmptyMap, enclosing |-> enclosing])]
Define(st, e, name, value) == [st EXCEPT !.envs[e].values = Put(@, name, value)]

RECURSIVE Get(_, _, _)
Get(st, e, name) ==
    IF name \notin DOMAIN st.envs[e].values THEN
        IF st.envs[e].enclosing # 0 THEN Get(st, st.envs[e].enclosing, name)
        ELSE RuntimeError(st, name, "Undefined variable '" \o name \o "'.")
    ELSE Return(st, st.envs[e].values[name])

RECURSIVE Assign(_, _, _, _)
Assign(st, e, name, val) ==
    IF name \notin DOMAIN st.envs[e].values THEN
        IF st.envs[e].enclosing # 0 THEN Assign(st, st.envs[e].enclosing, name, val)
        ELSE RuntimeError(st, name, "Undefined variable '" \o name \o "'.")
    ELSE [Define(st, e, name, val) EXCEPT !.err = NoError]

\* ancestor: -1 stands for the nil-pointer dereference of env.enclosing
RECURSIVE ancestor(_, _, _)
ancestor(st, e, distance) ==
    IF distance = 0 THEN e
    ELSE IF e = 0 THEN -1
    ELSE ancestor(st, st.envs[e].enclosing, distance - 1)

\* the invocation on top of the Go call stack; ptr 0 is top-level code
Frame(st) ==
    IF st.callStack = <<>> THEN [ptr |-> 0, environment |-> 0, closure |-> 0]
    ELSE st.callStack[Len(st.callStack)]

\* the environment of the chain from e that holds name, 0 when none does
RECURSIVE holder(_, _, _)
holder(st, e, name) ==
    IF e = 0 THEN 0
    ELSE IF name \in DOMAIN st.envs[e].values THEN e
    ELSE holder(st, st.envs[e].enclosing, name)

\* log entry of an access through the side-table: GetAt or AssignAt from e;
\* dynamic is the environment a walk by name from the current one would stop at
HopEvent(st, op, id, name, e, distance) ==
    LET target == ancestor(st, e, distance) IN
    [e |-> "hop", op |-> op, id |-> id, name |-> name, distance |-> distance,
     from |-> e, target |-> target,
     bound |-> target >= 1 /\ name \in DOMAIN st.envs[target].values,
     dynamic |-> holder(st, st.environment, name),
     frame |-> Frame(st).ptr, closure |-> Frame(st).closure]

\* log entry of an access by name: Get or Assign from e
NameEvent(st, op, id, name, e) ==
    [e |-> "name", op |-> op, id |-> id, name |-> name, distance |-> -1,
     from |-> e, target |-> holder(st, e, name), bound |-> holder(st, e, name) # 0,
     dynamic |-> holder(st, st.environment, name),
     frame |-> Frame(st).ptr, closure |-> Frame(st).closure]

GetAt(st, e, distance, name) ==
    LET target == ancestor(st, e, distance) IN
    IF target < 1 THEN Panic(st, "invalid memory address or nil pointer dereference")
    ELSE IF name \in DOMAIN st.envs[target].values
         THEN Return(st, st.envs[target].values[name])
         ELSE Return(st, NilValue)

AssignAt(st, e, distance, name, val) ==
    LET target == ancestor(st, e, distance) IN
    IF target < 1 THEN Panic(st, "invalid memory address or nil pointer dereference")
    ELSE Define(st, target, name, val)

isTruthy(v) ==
    IF v.t = "nil" THEN FALSE
    ELSE IF v.t = "bool" THEN v.v
    ELSE TRUE

isCallable(v) == v.t \in {"fun", "native", "class"}
isFloat64(v) == v.t = "num"
isString(v) == v.t = "str"

\* Go's == on interface{} values: the same dynamic type and the same value or pointer
InterfaceEqual(a, b) ==
    /\ a.t = b.t
    /\ CASE a.t = "nil" -> TRUE
         [] a.t \in {"bool", "str"} -> a.v = b.v
         [] a.t = "num" -> a.v = b.v /\ a.d = b.d
         [] a.t \in {"fun", "class", "instance"} -> a.ptr = b.ptr
         [] a.t = "native" -> TRUE

\* int(f) of Go: the fraction is cut off, toward zero
Truncate(f) == IF f.v >= 0 THEN f.v \div f.d ELSE -((-f.v) \div f.d)

\* the digits after the decimal point of r/d, r < d, at most MaxFractionDigits
RECURSIVE FractionDigits(_, _, _)
FractionDigits(r, d, k) ==
    IF r = 0 \/ k = 0 THEN ""
    ELSE ToString((10 * r) \div d) \o FractionDigits((10 * r) % d, d, k - 1)

\* strconv.FormatFloat(f, 'f', -1, 64)
FormatFloat(f) ==
    IF f.d = 1 THEN ToString(f.v)
    ELSE (IF f.v < 0 THEN "-" ELSE "") \o ToString(Abs(f.v) \div f.d) \o "."
         \o FractionDigits(Abs(f.v) % f.d, f.d, MaxFractionDigits)

stringify(v) ==
    CASE v.t = "nil" -> "nil"
      [] v.t = "num" -> ToString(Truncate(v))
      [] v.t = "bool" -> IF v.v THEN "true" ELSE "false"
      [] v.t = "str" -> v.v
      [] v.t = "fun" -> IF v.name = "" THEN "<anonymous function>"
                        ELSE "<function: " \o v.name \o ">"
      [] v.t = "native" -> "<native function: clock>"
      [] v.t = "class" -> v.name
      [] v.t = "instance" -> v.class \o " instance"

NewLoxFunction(st, name, decl, closure, isInitializer) ==
    [st EXCEPT
        !.allocated = @ + 1,
        !.val = [t |-> "fun", ptr |-> st.allocated + 1, name |-> name,
                 declaration |-> decl, closure |-> closure,
                 isInitializer |-> isInitializer],
        !.err = NoError,
        !.log = Append(@, [e |-> "function", ptr |-> st.allocated + 1,
                           closure |-> closure, current |-> st.environment])]

\* LoxClass.findMethod; the nil *LoxFunction is NilValue
findMethod(lc, name) == IF name \in DOMAIN lc.methods THEN lc.methods[name] ELSE NilValue

\* LoxFunction.Arity, Clock.Arity, LoxClass.Arity
Arity(callee) ==
    CASE callee.t = "fun" -> Len(callee.declaration.parameters)
      [] callee.t = "native" -> 0
      [] callee.t = "class" ->
            IF findMethod(callee, "init") = NilValue THEN 0
            ELSE Len(findMethod(callee, "init").declaration.parameters)

\* a check that lets a call with more arguments than parameters through
arityAtLeast(callee, arguments) == Len(arguments) >= Arity(callee)

\* VisitCallExpr line 273: the number of arguments against the arity
arityMatches(callee, arguments) == Len(arguments) = Arity(callee)

NewLoxClass(st, name, methods) ==
    [st EXCEPT !.allocated = @ + 1,
               !.val = [t |-> "class", ptr |-> st.allocated + 1, name |-> name,
                        methods |-> methods],
               !.err = NoError]

NewLoxInstance(st, lc) ==
    [st EXCEPT !.instances = Append(@, [class |-> lc, fields |-> EmptyMap]),
               !.val = [t |-> "instance", ptr |-> Len(st.instances) + 1, class |-> lc.name],
               !.err = NoError,
               !.log = Append(@, [e |-> "instance", ptr |-> Len(st.instances) + 1,
                                  class |-> lc.ptr])]

\* LoxFunction.Bind: the new function object has no Name
Bind(st, lf, instance) ==
    LET st1 == NewEnvironment(st, lf.closure)
        env == Len(st1.envs)
        st2 == Define(st1, env, "this", instance)
    IN  [st2 EXCEPT
            !.allocated = @ + 1,
            !.val = [t |-> "fun", ptr |-> st.allocated + 1, name |-> "",
                     declaration |-> lf.declaration, closure |-> env,
                     isInitializer |-> lf.isInitializer],
            !.err = NoError,
            !.log = Append(@, [e |-> "bind", ptr |-> st.allocated + 1, closure |-> env,
                               method |-> lf.ptr, instance |-> instance.ptr])]

\* the record of a Get: the fields before and after it and what it yielded
gotten(st, st1, instance, name) ==
    [st1 EXCEPT !.log = Append(@, [e |-> "get", instance |-> instance.ptr, name |-> name,
                                   before |-> st.instances[instance.ptr].fields,
                                   after |-> st1.instances[instance.ptr].fields,
                                   val |-> st1.val, err |-> st1.err])]

\* a Get that looks for the method first
LoxInstanceGetMethodFirst(st, instance, name) ==
    gotten(st,
           IF findMethod(st.instances[instance.ptr].class, name) # NilValue
           THEN Bind(st, findMethod(st.instances[instance.ptr].class, name), instance)
           ELSE IF name \in DOMAIN st.instances[instance.ptr].fields
           THEN Return(st, st.instances[instance.ptr].fields[name])
           ELSE RuntimeError(st, name, "Undefined property '" \o name \o "'."),
           instance, name)

\* LoxInstance.Get
LoxInstanceGet(st, instance, name) ==
    gotten(st,
           IF name \in DOMAIN st.instances[instance.ptr].fields
           THEN Return(st, st.instances[instance.ptr].fields[name])
           ELSE IF findMethod(st.instances[instance.ptr].class, name) # NilValue
           THEN Bind(st, findMethod(st.instances[instance.ptr].class, name), instance)
           ELSE RuntimeError(st, name, "Undefined property '" \o name \o "'."),
           instance, name)

\* LoxInstance.Set
LoxInstanceSet(st, instance, name, val) ==
    [st EXCEPT !.instances[instance.ptr].fields = Put(@, name, val),
               !.log = Append(@, [e |-> "set", instance |-> instance.ptr, name |-> name,
                                  val |-> val])]

\* a lookup that ignores the side-table and walks the chain by name
lookUpVariableByName(st, name, id) ==
    Get([st EXCEPT !.log = Append(@, NameEvent(st, "read", id, name, st.environment))],
        st.environment, name)

lookUpVariable(st, name, id) ==
    IF id \in DOMAIN st.locals THEN
        LET distance == st.locals[id]
            st1 == [st EXCEPT !.log = Append(@, HopEvent(st, "read", id, name,
                                                          st.environment, distance))]
        IN  GetAt(st1, st.environment, distance, name)
    ELSE Get([st EXCEPT !.log = Append(@, NameEvent(st, "read", id, name, st.globals))],
             st.globals, name)

RECURSIVE Accept(_, _), AcceptExpr(_, _), AcceptStmt(_, _), execute(_, _), evaluate(_, _),
          executeStatements(_, _), executeBlock(_, _, _),
          whileLoop(_, _), evaluateArguments(_, _, _), Call(_, _, _),
          defineParameters(_, _, _, _), VisitCallExpr(_, _), VisitBinaryExpr(_, _),
          VisitAssignExpr(_, _), LoxClassCall(_, _, _), VisitGetExpr(_, _),
          VisitSetExpr(_, _), methodTable(_, _, _), VisitClassStmt(_, _)

\* execute and evaluate: both hand the node the Interpreter as its visitor
execute(st, stmt) == Accept(st, stmt)
evaluate(st, expr) == Accept(st, expr)

executeStatements(st, stmts) ==
    IF stmts = <<>> THEN st
    ELSE LET st1 == execute(st, Head(stmts)) IN
         IF Failed(st1) THEN st1 ELSE executeStatements(st1, Tail(stmts))

\* a restore on the normal return only
restoreOnSuccess(st, previousEnv) ==
    IF Failed(st) THEN st ELSE [st EXCEPT !.environment = previousEnv]

\* the three places where executeBlock puts previous back (lines 190-192, 197, 202)
restore(st, previousEnv) == [st EXCEPT !.environment = previousEnv]

executeBlock(st, stmts, environment) ==
    LET previousEnv == st.environment
        st1 == executeStatements([st EXCEPT !.environment = environment], stmts)
        st2 == restore(st1, previousEnv)
    IN  [st2 EXCEPT !.log = Append(@, [e |-> "executeBlock", previous |-> previousEnv,
                                       environment |-> environment,
                                       after |-> st2.environment, err |-> st2.err.k])]

defineParameters(st, e, parameters, arguments) ==
    IF parameters = <<>> THEN st
    ELSE defineParameters(Define(st, e, Head(parameters), Head(arguments)), e,
                          Tail(parameters), Tail(arguments))

\* an invocation environment hung under the caller's environment
callEnvironmentOfCaller(st, lf) == NewEnvironment(st, st.environment)

\* LoxFunction.Call line 23: the environment of one invocation
callEnvironment(st, lf) == NewEnvironment(st, lf.closure)

\* a result that is the carried value for an initializer too
callResultOfFunction(st, lf, value) == Return(st, value)

\* LoxFunction.Call lines 32-47: what a finished body, or a return signal
\* carrying value, makes the call yield
callResult(st, lf, value) ==
    IF lf.isInitializer THEN GetAt(st, lf.closure, 0, "this") ELSE Return(st, value)

\* the record of a call that yielded st.val
returned(st, lf, signal, value) ==
    [st EXCEPT !.log = Append(@, [e |-> "result", ptr |-> lf.ptr,
                                  isInitializer |-> lf.isInitializer,
                                  signal |-> signal, carried |-> value,
                                  val |-> st.val])]

\* LoxFunction.Call and Clock.Call
Call(st, callee, arguments) ==
    IF callee.t = "native" THEN Return(st, NumberValue(0))
    ELSE
    LET st1 == callEnvironment(st, callee)
        environment == Len(st1.envs)
        st2 == defineParameters(st1, environment, callee.declaration.parameters, arguments)
        st3 == [st2 EXCEPT
                   !.log = Append(@, [e |-> "call", ptr |-> callee.ptr,
                                      environment |-> environment,
                                      fresh |-> environment > Len(st.envs),
                                      enclosing |-> st2.envs[environment].enclosing,
                                      closure |-> callee.closure,
                                      caller |-> st.environment,
                                      active |-> {st.callStack[i].environment :
                                                     i \in 1..Len(st.callStack)},
                                      running |-> {st.callStack[i].ptr :
                                                      i \in 1..Len(st.callStack)}]),
                   !.callStack = Append(@, [ptr |-> callee.ptr, environment |-> environment,
                                            closure |-> callee.closure])]
        st4 == executeBlock(st3, callee.declaration.body, environment)
        st5 == [st4 EXCEPT !.callStack = SubSeq(@, 1, Len(@) - 1)]
    IN  IF st5.err.k = "return" THEN
            returned(callResult([st5 EXCEPT !.err = NoError], callee, st5.err.value),
                     callee, "return", st5.err.value)
        ELSE IF Failed(st5) THEN st5
        ELSE returned(callResult(st5, callee, NilValue), callee, "end", NilValue)

\* LoxClass.Call: what the initializer returns, its error included, is dropped
LoxClassCall(st, lc, arguments) ==
    LET st1 == NewLoxInstance(st, lc)
        st2 == Bind(st1, findMethod(lc, "init"), st1.val)
        st3 == Call(st2, st2.val, arguments)
    IN  IF findMethod(lc, "init") = NilValue THEN st1
        ELSE IF st3.err.k = "panic" THEN st3
        ELSE Return(st3, st1.val)

\* the loop of VisitCallExpr over expr.Arguments; the values are left in val
evaluateArguments(st, exprs, arguments) ==
    IF exprs = <<>> THEN Return(st, arguments)
    ELSE LET st1 == evaluate(st, Head(exprs)) IN
         IF Failed(st1) THEN st1
         ELSE evaluateArguments(st1, Tail(exprs), Append(arguments, st1.val))

\* the records of the evaluation of a call expression starting and ending
enter(st, expr) == [st EXCEPT !.log = Append(@, [e |-> "enter", paren |-> expr.paren])]
leave(st, expr) ==
    [st EXCEPT !.log = Append(@, [e |-> "leave", paren |-> expr.paren, failed |-> Failed(st)])]

VisitCallExpr(st, expr) ==
    LET st1 == evaluate(st, expr.callee) IN
    IF Failed(st1) THEN st1 ELSE
    LET callee == st1.val
        st2 == evaluateArguments(st1, expr.arguments, <<>>) IN
    IF Failed(st2) THEN st2 ELSE
    LET arguments == st2.val IN
    IF ~isCallable(callee) THEN
        RuntimeError(st2, expr.closing, "Can only call functions and classes.")
    ELSE LET st3 == [st2 EXCEPT !.log = Append(@, [e |-> "apply", paren |-> expr.paren,
                                                   callee |-> callee.t,
                                                   arguments |-> Len(arguments),
                                                   arity |-> Arity(callee)])] IN
    IF ~arityMatches(callee, arguments) THEN
        RuntimeError(st3, expr.closing,
                     "Expected " \o ToString(Arity(callee)) \o " arguments but got "
                     \o ToString(Len(arguments)) \o ".")
    ELSE IF callee.t = "class" THEN LoxClassCall(st3, callee, arguments)
    ELSE Call(st3, callee, arguments)

VisitSetExpr(st, expr) ==
    LET st1 == evaluate(st, expr.object) IN
    IF Failed(st1) THEN st1
    ELSE IF st1.val.t # "instance" THEN
        RuntimeError(st1, expr.name, "Only instances have fields.")
    ELSE LET st2 == evaluate(st1, expr.value) IN
         IF Failed(st2) THEN st2
         ELSE Return(LoxInstanceSet(st2, st1.val, expr.name, st2.val), st2.val)

VisitGetExpr(st, expr) ==
    LET st1 == evaluate(st, expr.object) IN
    IF Failed(st1) THEN st1
    ELSE IF st1.val.t = "instance" THEN LoxInstanceGet(st1, st1.val, expr.name)
    ELSE RuntimeError(st1, expr.name, "Only instances have properties.")

VisitAssignExpr(st, expr) ==
    LET st1 == evaluate(st, expr.value) IN
    IF Failed(st1) THEN st1 ELSE
    LET val == st1.val IN
    IF expr.id \in DOMAIN st1.locals THEN
        LET distance == st1.locals[expr.id]
            st2 == [st1 EXCEPT !.log = Append(@, HopEvent(st1, "write", expr.id, expr.name,
                                                           st1.environment, distance))]
            st3 == AssignAt(st2, st2.environment, distance, expr.name, val)
        IN  IF Failed(st3) THEN st3 ELSE Return(st3, val)
    ELSE LET st2 == Assign([st1 EXCEPT !.log = Append(@, NameEvent(st1, "write", expr.id,
                                                                expr.name, st1.globals))],
                           st1.globals, expr.name, val) IN
         IF Failed(st2) THEN [st2 EXCEPT !.val = NilValue] ELSE Return(st2, val)

checkNumberOperands(st, operator, operand1, operand2) ==
    IF isFloat64(operand1) /\ isFloat64(operand2) THEN st
    ELSE RuntimeError(st, operator, "Operands must be numbers.")

\* operands evaluated right to left
operandsRightFirst(st, expr) ==
    LET st1 == evaluate(st, expr.right) IN
    IF Failed(st1) THEN st1 ELSE
    LET st2 == evaluate(st1, expr.left) IN
    IF Failed(st2) THEN st2 ELSE Return(st2, <<st2.val, st1.val>>)

\* VisitBinaryExpr lines 340-348: the two operands, left in val[1] and right
\* in val[2]
operands(st, expr) ==
    LET st1 == evaluate(st, expr.left) IN
    IF Failed(st1) THEN st1 ELSE
    LET st2 == evaluate(st1, expr.right) IN
    IF Failed(st2) THEN st2 ELSE Return(st2, <<st1.val, st2.val>>)

VisitBinaryExpr(st, expr) ==
    LET st2 == operands(st, expr) IN
    IF Failed(st2) THEN st2 ELSE
    LET left == st2.val[1]
        right == st2.val[2]
        op == expr.operator
        chk == checkNumberOperands(st2, op, left, right)
    IN  CASE op = "GREATER" ->
                IF Failed(chk) THEN chk
                ELSE Return(st2, BoolValue(left.v * right.d > right.v * left.d))
          [] op = "GREATER_EQUAL" ->
                IF Failed(chk) THEN chk
                ELSE Return(st2, BoolValue(left.v * right.d >= right.v * left.d))
          [] op = "LESS" ->
                IF Failed(chk) THEN chk
                ELSE Return(st2, BoolValue(left.v * right.d < right.v * left.d))
          [] op = "LESS_EQUAL" ->
                IF Failed(chk) THEN chk
                ELSE Return(st2, BoolValue(left.v * right.d <= right.v * left.d))
          [] op = "BANG_EQUAL" -> Return(st2, BoolValue(~InterfaceEqual(left, right)))
          [] op = "EQUAL_EQUAL" -> Return(st2, BoolValue(InterfaceEqual(left, right)))
          [] op = "MINUS" ->
                IF Failed(chk) THEN chk
                ELSE Return(st2, Float64(left.v * right.d - right.v * left.d, left.d * right.d))
          [] op = "PLUS" ->
                IF isFloat64(left) /\ isFloat64(right) THEN
                    Return(st2, Float64(left.v * right.d + right.v * left.d, left.d * right.d))
                ELSE IF isString(left) /\ isString(right) THEN
                    Return(st2, StringValue(left.v \o right.v))
                ELSE IF isString(left) /\ isFloat64(right) THEN
                    Return(st2, StringValue(left.v \o FormatFloat(right)))
                ELSE IF isFloat64(left) /\ isString(right) THEN
                    Return(st2, StringValue(FormatFloat(left) \o right.v))
                ELSE RuntimeError(st2, op, "both operands must be numbers or strings.")
          [] op = "SLASH" ->
                IF Failed(chk) THEN chk
                ELSE IF right.v = 0 THEN RuntimeError(st2, op, "divisor can not be 0.")
                ELSE Return(st2, Float64(left.v * right.d, left.d * right.v))
          [] op = "STAR" ->
                IF Failed(chk) THEN chk
                ELSE Return(st2, Float64(left.v * right.v, left.d * right.d))
          [] op = "COMMA" -> Return(st2, NilValue)

\* Expr.Accept: the Visit method of the node's kind
AcceptExpr(st, expr) ==
    CASE expr.k = "Literal" -> Return(st, expr.value)
      [] expr.k = "Grouping" -> evaluate(st, expr.expression)
      [] expr.k = "Variable" -> lookUpVariable(st, expr.name, expr.id)
      [] expr.k = "This" -> lookUpVariable(st, expr.name, expr.id)
      [] expr.k = "Assign" -> VisitAssignExpr(st, expr)
      [] expr.k = "Binary" -> VisitBinaryExpr(st, expr)
      [] expr.k = "Call" -> leave(VisitCallExpr(enter(st, expr), expr), expr)
      [] expr.k = "Get" -> VisitGetExpr(st, expr)
      [] expr.k = "Set" -> VisitSetExpr(st, expr)
      [] expr.k = "FunctionExpr" -> NewLoxFunction(st, "", expr, st.environment, FALSE)
      [] expr.k = "Logical" ->
            LET st1 == evaluate(st, expr.left) IN
            IF Failed(st1) THEN st1
            ELSE IF expr.operator = "OR" /\ isTruthy(st1.val) THEN st1
            ELSE IF expr.operator # "OR" /\ ~isTruthy(st1.val) THEN st1
            ELSE evaluate(st1, expr.right)
      [] expr.k = "Conditional" ->
            LET st1 == evaluate(st, expr.cond) IN
            IF Failed(st1) THEN st1
            ELSE IF isTruthy(st1.val) THEN evaluate(st1, expr.consequent)
            ELSE evaluate(st1, expr.alternate)
      [] expr.k = "Unary" ->
            LET st1 == evaluate(st, expr.right) IN
            IF Failed(st1) THEN st1
            ELSE IF expr.operator = "BANG" THEN Return(st1, BoolValue(~isTruthy(st1.val)))
            ELSE IF isFloat64(st1.val) THEN Return(st1, Float64(-st1.val.v, st1.val.d))
            ELSE RuntimeError(st1, "-", "Operand must be a number.")

whileLoop(st, stmt) ==
    LET st1 == evaluate(st, stmt.condition) IN
    IF Failed(st1) THEN st1
    ELSE IF isTruthy(st1.val) THEN
        LET st2 == execute(st1, stmt.body) IN
        IF st2.err.k = "break" THEN [st2 EXCEPT !.err = NoError]
        ELSE IF Failed(st2) THEN st2
        ELSE whileLoop(st2, stmt)
    ELSE st1

\* the loop of VisitClassStmt over stmt.Methods; the map is left in val
methodTable(st, methods, table) ==
    IF methods = <<>> THEN Return(st, table)
    ELSE LET st1 == NewLoxFunction(st, Head(methods).name, Head(methods).function,
                                   st.environment, Head(methods).name = "init")
         IN  methodTable(st1, Tail(methods), Put(table, Head(methods).name, st1.val))

VisitClassStmt(st, stmt) ==
    LET st1 == Define(st, st.environment, stmt.name, NilValue)
        st2 == methodTable(st1, stmt.methods, EmptyMap)
        st3 == NewLoxClass(st2, stmt.name, st2.val)
    IN  Assign(st3, st3.environment, stmt.name, st3.val)

\* Stmt.Accept: the Visit method of the node's kind
AcceptStmt(st, stmt) ==
    CASE stmt.k = "Class" -> VisitClassStmt(st, stmt)
      [] stmt.k = "Return" ->
            LET st1 == IF stmt.value.k # "none" THEN evaluate(st, stmt.value)
                       ELSE Return(st, NilValue) IN
            IF Failed(st1) THEN st1
            ELSE [st1 EXCEPT !.err = [k |-> "return", value |-> st1.val]]
      [] stmt.k = "Function" ->
            LET st1 == NewLoxFunction(st, stmt.name, stmt.function, st.environment, FALSE)
            IN  Define(st1, st1.environment, stmt.name, st1.val)
      [] stmt.k = "Break" -> [st EXCEPT !.err = [k |-> "break"]]
      [] stmt.k = "While" -> whileLoop(st, stmt)
      [] stmt.k = "If" ->
            LET st1 == evaluate(st, stmt.condition) IN
            IF Failed(st1) THEN st1
            ELSE IF isTruthy(st1.val) THEN execute(st1, stmt.thenBranch)
            ELSE IF stmt.elseBranch.k # "none" THEN execute(st1, stmt.elseBranch)
            ELSE st1
      [] stmt.k = "Block" ->
            LET st1 == NewEnvironment(st, st.environment)
            IN  executeBlock(st1, stmt.statements, Len(st1.envs))
      [] stmt.k = "Var" ->
            LET st1 == IF stmt.initializer.k # "none" THEN evaluate(st, stmt.initializer)
                       ELSE Return(st, NilValue) IN
            IF Failed(st1) THEN st1
            ELSE Define(st1, st1.environment, stmt.name, st1.val)
      [] stmt.k = "Print" ->
            LET st1 == evaluate(st, stmt.expression) IN
            IF Failed(st1) THEN st1
            ELSE [st1 EXCEPT !.out = Append(@, stringify(st1.val))]
      [] stmt.k = "Expression" -> evaluate(st, stmt.expression)

StmtKinds == {"Expression", "Print", "Var", "Block", "If", "While", "Break", "Function",
              "Return", "Class"}
Accept(st, node) ==
    IF node.k \in StmtKinds THEN AcceptStmt([st EXCEPT !.executed = @ + 1], node)
    ELSE AcceptExpr([st EXCEPT !.executed = @ + 1], node)

NewInterpreter ==
    [envs |-> <<[values |-> Put(EmptyMap, "clock", [t |-> "native", name |-> "clock"]),
                 enclosing |-> 0]>>,
     environment |-> 1, globals |-> 1, locals |-> EmptyMap, out |-> <<>>, allocated |-> 0,
     instances |-> <<>>, callStack |-> <<>>, executed |-> 0, val |-> NilValue,
     err |-> NoError, log |-> <<>>]

(***************************************************************************)
(* error.go: the ErrorPrinter.  reported holds what report() logged,       *)
(* runtimeErrors the errors RuntimeError was called with.                  *)
(***************************************************************************)
NewErrorPrinter == [hadError |-> FALSE, hadRuntimeError |-> FALSE, reported |-> <<>>,
                    runtimeErrors |-> <<>>]

\* report: every message logged sets hadError
report(ep, messages) ==
    IF messages = <<>> THEN ep
    ELSE [ep EXCEPT !.reported = @ \o messages, !.hadError = TRUE]

(***************************************************************************)
(* The programs.  Each is the token list of the Lox text in its comment.   *)
(***************************************************************************)
\* var a = "global"; { fun show() { print a; } show(); var a = "inner"; show(); }
ProgScenario1 ==
    Lex(<<"var", "a", "=">>) \o Str("global") \o
    Lex(<<";", "{", "fun", "show", "(", ")", "{", "print", "a", ";", "}", "show", "(", ")", ";",
          "var", "a", "=">>) \o Str("inner") \o
    Lex(<<";", "show", "(", ")", ";", "}">>) \o EndOfFile
\* { var a = "outer"; { fun show() { print a; } show(); var a = "inner"; show(); } }
ProgShadow ==
    Lex(<<"{", "var", "a", "=">>) \o Str("outer") \o
    Lex(<<";", "{", "fun", "show", "(", ")", "{", "print", "a", ";", "}", "show", "(", ")", ";",
          "var", "a", "=">>) \o Str("inner") \o
    Lex(<<";", "show", "(", ")", ";", "}", "}">>) \o EndOfFile
\* { var a = fun () { return a; }(); print a; }
ProgOwnInitializer ==
    Lex(<<"{", "var", "a", "=", "fun", "(", ")", "{", "return", "a", ";", "}", "(", ")", ";",
          "print", "a", ";", "}">>) \o EndOfFile
\* { var a = fun () { a = 1; return 2; }(); print a; }
ProgOwnInitializerWrite ==
    Lex(<<"{", "var", "a", "=", "fun", "(", ")", "{", "a", "=", "1", ";", "return", "2", ";",
          "}", "(", ")", ";", "print", "a", ";", "}">>) \o EndOfFile
\* fun fib(n) { if (n < 2) return n; return fib(n - 1) + fib(n - 2); } print fib(2);
ProgFib ==
    Lex(<<"fun", "fib", "(", "n", ")", "{", "if", "(", "n", "<", "2", ")", "return", "n", ";",
          "return", "fib", "(", "n", "-", "1", ")", "+", "fib", "(", "n", "-", "2", ")", ";",
          "}", "print", "fib", "(", "2", ")", ";">>) \o EndOfFile
\* fun down(n) { if (n > 0) down(n - 1); print n; } down(2);
ProgDown ==
    Lex(<<"fun", "down", "(", "n", ")", "{", "if", "(", "n", ">", "0", ")", "down", "(", "n",
          "-", "1", ")", ";", "print", "n", ";", "}", "down", "(", "2", ")", ";">>) \o EndOfFile
\* var x = 1; fun get() { return x; } fun wrap() { var x = 2; return get(); } print wrap();
ProgCaller ==
    Lex(<<"var", "x", "=", "1", ";", "fun", "get", "(", ")", "{", "return", "x", ";", "}",
          "fun", "wrap", "(", ")", "{", "var", "x", "=", "2", ";", "return", "get", "(", ")",
          ";", "}", "print", "wrap", "(", ")", ";">>) \o EndOfFile
\* { var x = 1; { print x + nil; } } print 5;
ProgBlockError ==
    Lex(<<"{", "var", "x", "=", "1", ";", "{", "print", "x", "+", "nil", ";", "}", "}",
          "print", "5", ";">>) \o EndOfFile
\* var i = 0; while (i < 3) { { if (i == 1) break; } i = i + 1; } print i;
ProgBlockBreak ==
    Lex(<<"var", "i", "=", "0", ";", "while", "(", "i", "<", "3", ")", "{", "{", "if", "(",
          "i", "==", "1", ")", "break", ";", "}", "i", "=", "i", "+", "1", ";", "}",
          "print", "i", ";">>) \o EndOfFile
\* fun f() { { { return 7; } } } print f(); print 8;
ProgBlockReturn ==
    Lex(<<"fun", "f", "(", ")", "{", "{", "{", "return", "7", ";", "}", "}", "}",
          "print", "f", "(", ")", ";", "print", "8", ";">>) \o EndOfFile
\* { var x = 1; } fun f() { { return 1; } } while (true) { { break; } } f();
\* { print 1 + nil; }
ProgBlockExits ==
    Lex(<<"{", "var", "x", "=", "1", ";", "}", "fun", "f", "(", ")", "{", "{", "return", "1", ";", "}", "}", "while", "(", "true",
          ")", "{", "{", "break", ";", "}", "}", "f", "(", ")", ";", "{", "print", "1", "+",
          "nil", ";", "}">>) \o EndOfFile
\* var f; while (true) { f = fun () { break; }; break; } f(); print 1;
ProgBreakEscapes ==
    Lex(<<"var", "f", ";", "while", "(", "true", ")", "{", "f", "=", "fun", "(", ")", "{",
          "break", ";", "}", ";", "break", ";", "}", "f", "(", ")", ";", "print", "1", ";">>)
    \o EndOfFile
\* while (true) { fun f() { break; } f(); print 1; } print 2;
ProgBreakInCall ==
    Lex(<<"while", "(", "true", ")", "{", "fun", "f", "(", ")", "{", "break", ";", "}",
          "f", "(", ")", ";", "print", "1", ";", "}", "print", "2", ";">>) \o EndOfFile
\* fun f() { break; }
ProgBreakNoLoop ==
    Lex(<<"fun", "f", "(", ")", "{", "break", ";", "}">>) \o EndOfFile
\* fun g() { return 1; } fun f(x, y, z) { print y; } f(g(), 2, 3);
ProgNestedCall ==
    Lex(<<"fun", "g", "(", ")", "{", "return", "1", ";", "}", "fun", "f", "(", "x", ",",
          "y", ",", "z", ")", "{", "print", "y", ";", "}", "f", "(", "g", "(", ")", ",",
          "2", ",", "3", ")", ";">>) \o EndOfFile
\* fun f(x, y, z) { print y; } f(1, 2, 3); print (4, 5);
ProgFlatCall ==
    Lex(<<"fun", "f", "(", "x", ",", "y", ",", "z", ")", "{", "print", "y", ";", "}",
          "f", "(", "1", ",", "2", ",", "3", ")", ";", "print", "(", "4", ",", "5", ")", ";">>)
    \o EndOfFile
\* var 1; print 2; var 3;
ProgTwoErrors ==
    Lex(<<"var", "1", ";", "print", "2", ";", "var", "3", ";">>) \o EndOfFile
\* print ; print 1; print ;
ProgTwoPrintErrors ==
    Lex(<<"print", ";", "print", "1", ";", "print", ";">>) \o EndOfFile
\* return 1; print 2;
ProgTopReturn ==
    Lex(<<"return", "1", ";", "print", "2", ";">>) \o EndOfFile
\* for (var i = 0; i < 5; i = i + 1) { if (i == 3) break; print i; }
ProgScenario6 ==
    Lex(<<"for", "(", "var", "i", "=", "0", ";", "i", "<", "5", ";", "i", "=", "i", "+", "1",
          ")", "{", "if", "(", "i", "==", "3", ")", "break", ";", "print", "i", ";", "}">>)
    \o EndOfFile
\* print 1 + nil; print undefined; print 3;
ProgRuntimeErrors ==
    Lex(<<"print", "1", "+", "nil", ";", "print", "undefined", ";", "print", "3", ";">>)
    \o EndOfFile
\* class A { init() { print 1; nil(); print 2; } } var a = A(); print a; print 3;
ProgInitError ==
    Lex(<<"class", "A", "{", "init", "(", ")", "{", "print", "1", ";", "nil", "(", ")",
          ";", "print", "2", ";", "}", "}", "var", "a", "=", "A", "(", ")", ";",
          "print", "a", ";", "print", "3", ";">>) \o EndOfFile
\* fun f(a) { print a; } f(); f(1, 2); clock(1); class A { init(x) { print x; } } A(); class
\* B {} B(1); print 9;
ProgArity ==
    Lex(<<"fun", "f", "(", "a", ")", "{", "print", "a", ";", "}", "f", "(", ")", ";", "f",
          "(", "1", ",", "2", ")", ";", "clock", "(", "1", ")", ";", "class", "A", "{",
          "init", "(", "x", ")", "{", "print", "x", ";", "}", "}", "A", "(", ")", ";",
          "class", "B", "{", "}", "B", "(", "1", ")", ";", "print", "9", ";">>) \o EndOfFile
\* class P { init(x) { this.x = x; if (x) return; this.y = 1; } } var p = P(true); var q =
\* P(false); print p.init(false) == p; print q.init(true) == q; print p == q; fun f() {
\* return; } fun g() {} fun h() { return 7; } print f(); print g(); print h();
ProgInitializer ==
    Lex(<<"class", "P", "{", "init", "(", "x", ")", "{", "this", ".", "x", "=", "x", ";",
          "if", "(", "x", ")", "return", ";", "this", ".", "y", "=", "1", ";", "}",
          "}", "var", "p", "=", "P", "(", "true", ")", ";", "var", "q", "=", "P", "(",
          "false", ")", ";", "print", "p", ".", "init", "(", "false", ")", "==", "p",
          ";", "print", "q", ".", "init", "(", "true", ")", "==", "q", ";", "print",
          "p", "==", "q", ";", "fun", "f", "(", ")", "{", "return", ";", "}", "fun",
          "g", "(", ")", "{", "}", "fun", "h", "(", ")", "{", "return", "7", ";", "}",
          "print", "f", "(", ")", ";", "print", "g", "(", ")", ";", "print", "h", "(",
          ")", ";">>) \o EndOfFile
\* var a = a; print a;
ProgTopOwnInitializer ==
    Lex(<<"var", "a", "=", "a", ";", "print", "a", ";">>) \o EndOfFile
\* { var a = a; print a; }
ProgLocalOwnInitializer ==
    Lex(<<"{", "var", "a", "=", "a", ";", "print", "a", ";", "}">>) \o EndOfFile
\* fun f() { return 1; } return 2; if (true) { return; } while (false) return f;
ProgReturnAfterFunction ==
    Lex(<<"fun", "f", "(", ")", "{", "return", "1", ";", "}", "return", "2", ";", "if",
          "(", "true", ")", "{", "return", ";", "}", "while", "(", "false", ")",
          "return", "f", ";">>) \o EndOfFile
\* fun outer() { fun inner() { return 1; } return inner() + 1; } print outer();
ProgReturnAfterNested ==
    Lex(<<"fun", "outer", "(", ")", "{", "fun", "inner", "(", ")", "{", "return", "1", ";",
          "}", "return", "inner", "(", ")", "+", "1", ";", "}", "print", "outer", "(",
          ")", ";">>) \o EndOfFile
\* var a; var a; fun f(a) { var a; { var a; } } fun g(a, a) {} { var b; var b; fun b() {} {
\* var b; } } fun f() {} var h = fun (c) { var d; var c; };
ProgRedeclare ==
    Lex(<<"var", "a", ";", "var", "a", ";", "fun", "f", "(", "a", ")", "{", "var", "a",
          ";", "{", "var", "a", ";", "}", "}", "fun", "g", "(", "a", ",", "a", ")",
          "{", "}", "{", "var", "b", ";", "var", "b", ";", "fun", "b", "(", ")", "{",
          "}", "{", "var", "b", ";", "}", "}", "fun", "f", "(", ")", "{", "}", "var",
          "h", "=", "fun", "(", "c", ")", "{", "var", "d", ";", "var", "c", ";", "}",
          ";">>) \o EndOfFile
\* var a = 1; var a = 2; { var a = 3; { var a = 4; print a; } print a; } print a;
ProgRedeclareQuiet ==
    Lex(<<"var", "a", "=", "1", ";", "var", "a", "=", "2", ";", "{", "var", "a", "=", "3",
          ";", "{", "var", "a", "=", "4", ";", "print", "a", ";", "}", "print", "a",
          ";", "}", "print", "a", ";">>) \o EndOfFile
\* var g = 0; { var a = 1; var c = 5; { var b = 2; { var a = 3; print a = b + c + g; } } }
ProgHops ==
    Lex(<<"var", "g", "=", "0", ";", "{", "var", "a", "=", "1", ";", "var", "c", "=", "5",
          ";", "{", "var", "b", "=", "2", ";", "{", "var", "a", "=", "3", ";", "print",
          "a", "=", "b", "+", "c", "+", "g", ";", "}", "}", "}">>) \o EndOfFile
\* fun p(x) { print x; return x; } fun two(a, b) { return a - b; } fun get(x) { print x;
\* return two; } var a = 0; print p(1) + p(2) * p(3); print get(0)(a = 4, a = a + 1); p(6) +
\* nil() + p(7); two(u, a = 8); two(a = u, a = 9); print a;
ProgOrder ==
    Lex(<<"fun", "p", "(", "x", ")", "{", "print", "x", ";", "return", "x", ";", "}",
          "fun", "two", "(", "a", ",", "b", ")", "{", "return", "a", "-", "b", ";",
          "}", "fun", "get", "(", "x", ")", "{", "print", "x", ";", "return", "two",
          ";", "}", "var", "a", "=", "0", ";", "print", "p", "(", "1", ")", "+", "p",
          "(", "2", ")", "*", "p", "(", "3", ")", ";", "print", "get", "(", "0", ")",
          "(", "a", "=", "4", ",", "a", "=", "a", "+", "1", ")", ";", "p", "(", "6",
          ")", "+", "nil", "(", ")", "+", "p", "(", "7", ")", ";", "two", "(", "u",
          ",", "a", "=", "8", ")", ";", "two", "(", "a", "=", "u", ",", "a", "=", "9",
          ")", ";", "print", "a", ";">>) \o EndOfFile
\* class A { m() { return 1; } n() { return this.x; } } var a = A(); a.m = 5; print a.m;
\* a.x = 7; print a.n(); a.x = 8; print a.x; var b = A(); print b.m(); print b.n; b.y;
ProgFields ==
    Lex(<<"class", "A", "{", "m", "(", ")", "{", "return", "1", ";", "}", "n", "(", ")",
          "{", "return", "this", ".", "x", ";", "}", "}", "var", "a", "=", "A", "(",
          ")", ";", "a", ".", "m", "=", "5", ";", "print", "a", ".", "m", ";", "a",
          ".", "x", "=", "7", ";", "print", "a", ".", "n", "(", ")", ";", "a", ".",
          "x", "=", "8", ";", "print", "a", ".", "x", ";", "var", "b", "=", "A", "(",
          ")", ";", "print", "b", ".", "m", "(", ")", ";", "print", "b", ".", "n", ";",
          "b", ".", "y", ";">>) \o EndOfFile
\* var n = 0; for (var i = n; i < 2; i = i + 1) n = n + 1; for (;;) { print n; break; } for
\* (n = 7; n < 9;) n = n + 1; for (var j = 0; j < 5; j = j + 1) { if (j == 1) break; print
\* j; } print n; print i;
ProgFor ==
    Lex(<<"var", "n", "=", "0", ";", "for", "(", "var", "i", "=", "n", ";", "i", "<", "2",
          ";", "i", "=", "i", "+", "1", ")", "n", "=", "n", "+", "1", ";", "for", "(",
          ";", ";", ")", "{", "print", "n", ";", "break", ";", "}", "for", "(", "n",
          "=", "7", ";", "n", "<", "9", ";", ")", "n", "=", "n", "+", "1", ";", "for",
          "(", "var", "j", "=", "0", ";", "j", "<", "5", ";", "j", "=", "j", "+", "1",
          ")", "{", "if", "(", "j", "==", "1", ")", "break", ";", "print", "j", ";",
          "}", "print", "n", ";", "print", "i", ";">>) \o EndOfFile
\* var a = 0; print (a = 1), (a = a + 1); print a; print (3, 4); print ("s", nil) == nil;
ProgComma ==
    Lex(<<"var", "a", "=", "0", ";", "print", "(", "a", "=", "1", ")", ",", "(", "a", "=",
          "a", "+", "1", ")", ";", "print", "a", ";", "print", "(", "3", ",", "4", ")",
          ";", "print", "(">>) \o
    Str("s") \o
    Lex(<<",", "nil", ")", "==", "nil", ";">>) \o EndOfFile

Programs ==
    <<ProgScenario1, ProgShadow, ProgOwnInitializer, ProgOwnInitializerWrite, ProgFib,
      ProgDown, ProgCaller, ProgBlockError, ProgBlockBreak, ProgBlockReturn,
      ProgBreakEscapes, ProgBreakInCall, ProgBreakNoLoop, ProgNestedCall, ProgFlatCall,
      ProgTwoErrors, ProgTwoPrintErrors, ProgTopReturn, ProgScenario6, ProgRuntimeErrors,
      ProgBlockExits, ProgInitError, ProgArity, ProgInitializer, ProgTopOwnInitializer,
      ProgLocalOwnInitializer, ProgReturnAfterFunction, ProgReturnAfterNested,
      ProgRedeclare, ProgRedeclareQuiet, ProgHops, ProgOrder, ProgFields, ProgFor,
      ProgComma>>

(***************************************************************************)
(* Programs at the limits of the parser: functionBody takes 8 parameters   *)
(* and finishCall 255 arguments.  They are given to the parser alone.      *)
(***************************************************************************)
\* n times the word, with commas in between
Separated(n, word) == [i \in 1..(2 * n - 1) |-> IF i % 2 = 1 THEN word ELSE ","]

\* fun f(a, b, c, d, e, g, h, i) { print a; } print 1;
ProgEightParameters ==
    Lex(<<"fun", "f", "(", "a", ",", "b", ",", "c", ",", "d", ",", "e", ",", "g", ",", "h",
          ",", "i", ")", "{", "print", "a", ";", "}", "print", "1", ";">>) \o EndOfFile
\* print 0; fun f(a, b, c, d, e, g, h, i, j) { print a; } print 1;
ProgNineParameters ==
    Lex(<<"print", "0", ";", "fun", "f", "(", "a", ",", "b", ",", "c", ",", "d", ",", "e",
          ",", "g", ",", "h", ",", "i", ",", "j", ")", "{", "print", "a", ";", "}",
          "print", "1", ";">>) \o EndOfFile
\* class A { m(a, b, c, d, e, g, h, i, j) { } } print 1;
ProgNineMethodParameters ==
    Lex(<<"class", "A", "{", "m", "(", "a", ",", "b", ",", "c", ",", "d", ",", "e", ",",
          "g", ",", "h", ",", "i", ",", "j", ")", "{", "}", "}", "print", "1", ";">>)
        \o EndOfFile
\* var h = fun (a, b, c, d, e, g, h, i, j) { }; print 1;
ProgNineLambdaParameters ==
    Lex(<<"var", "h", "=", "fun", "(", "a", ",", "b", ",", "c", ",", "d", ",", "e", ",",
          "g", ",", "h", ",", "i", ",", "j", ")", "{", "}", ";", "print", "1", ";">>)
        \o EndOfFile
\* f(1, 1, ..., 1); print 1;   with 255 arguments
ProgMaxArguments ==
    Lex(<<"f", "(">> \o Separated(MaxArguments, "1") \o <<")", ";", "print", "1", ";">>)
        \o EndOfFile
\* print 0; f(1, 1, ..., 1); print 1;   with 256 arguments
ProgTooManyArguments ==
    Lex(<<"print", "0", ";", "f", "(">> \o Separated(MaxArguments + 1, "1")
        \o <<")", ";", "print", "1", ";">>) \o EndOfFile

LimitPrograms ==
    <<ProgEightParameters, ProgNineParameters, ProgNineMethodParameters,
      ProgNineLambdaParameters, ProgMaxArguments, ProgTooManyArguments>>

(***************************************************************************)
(* Programs with loops, for the counter loopDepth of the parser.           *)
(***************************************************************************)
\* while (true) { for (;;) print 1; print ; } print 2;
ProgLoopBodyError ==
    Lex(<<"while", "(", "true", ")", "{", "for", "(", ";", ";", ")", "print", "1", ";",
          "print", ";", "}", "print", "2", ";">>) \o EndOfFile
\* for (;;) while (true) { break; break } print 2;
ProgNestedLoopError ==
    Lex(<<"for", "(", ";", ";", ")", "while", "(", "true", ")", "{", "break", ";", "break",
          "}", "print", "2", ";">>) \o EndOfFile
\* while (false) { break; } for (;;) break; break; print 2;
ProgBreakAfterLoop ==
    Lex(<<"while", "(", "false", ")", "{", "break", ";", "}", "for", "(", ";", ";", ")",
          "break", ";", "break", ";", "print", "2", ";">>) \o EndOfFile
\* var n = 0; while (n < 2) { for (;;) { break; } n = n + 1; } print n;
ProgLoops ==
    Lex(<<"var", "n", "=", "0", ";", "while", "(", "n", "<", "2", ")", "{", "for", "(",
          ";", ";", ")", "{", "break", ";", "}", "n", "=", "n", "+", "1", ";", "}",
          "print", "n", ";">>) \o EndOfFile

LoopPrograms == <<ProgLoopBodyError, ProgNestedLoopError, ProgBreakAfterLoop, ProgLoops>>

(***************************************************************************)
(* The pipeline.  In mode "core" the components run in the order           *)
(* resolver.go documents: Parse, then the Resolver over the statement      *)
(* list, then Interpret.                                                   *)
(***************************************************************************)
NilSyntax == [k |-> "nil"]

Init ==
    /\ mode = "core"
    /\ phase = "parse"
    /\ input = <<>>
    /\ source = <<>>
    /\ scanner = NewScanner
    /\ \E i \in DOMAIN Programs : tokens = Programs[i]
    /\ parser = NewParser
    /\ statements = <<>>
    /\ syntax = NilSyntax
    /\ resolver = NewResolver
    /\ resolved = 0
    /\ interp = NewInterpreter
    /\ next = 1
    /\ errorPrinter = NewErrorPrinter

\* what Parse does with the (Stmt, error) pair of one declaration: lines 36-41
ParseOutcome(d) ==
    /\ errorPrinter' = report(errorPrinter, d.p.reported)
    /\ parser' = [d.p EXCEPT !.reported = <<>>]
    /\ IF d.err
       THEN /\ syntax' = NilSyntax
            /\ phase' = "parsed"
            /\ UNCHANGED statements
       ELSE /\ statements' = Append(statements, d.n)
            /\ UNCHANGED <<syntax, phase>>

\* Parse, one turn of its loop: lines 35-42
ParseDeclaration ==
    /\ phase = "parse"
    /\ mode \in {"core", "file"}
    /\ ~isAtEnd(parser)
    /\ ParseOutcome(rule("declaration", parser))
    /\ UNCHANGED <<mode, input, source, scanner, tokens, resolver, resolved, interp, next>>

\* Parse, the end of its loop: line 44
ParseReturn ==
    /\ phase = "parse"
    /\ mode \in {"core", "file"}
    /\ isAtEnd(parser)
    /\ syntax' = [k |-> "stmts", statements |-> statements]
    /\ phase' = "parsed"
    /\ UNCHANGED <<mode, input, source, scanner, tokens, parser, statements, resolver,
                   resolved, interp, next, errorPrinter>>

\* nothing runs after a compile-time error
SkipOnError ==
    /\ phase \in {"parsed", "resolved"}
    /\ mode = "core"
    /\ errorPrinter.hadError
    /\ phase' = "done"
    /\ UNCHANGED <<mode, input, source, scanner, tokens, parser, statements, syntax,
                   resolver, resolved, interp, next, errorPrinter>>

\* the Resolver is made for the parsed program: NewResolver
StartResolver ==
    /\ phase = "parsed"
    /\ mode = "core"
    /\ ~errorPrinter.hadError
    /\ resolver' = NewResolver
    /\ resolved' = 0
    /\ phase' = "resolve"
    /\ UNCHANGED <<mode, input, source, scanner, tokens, parser, statements, syntax,
                   interp, next, errorPrinter>>

\* the Resolver writes into Interpreter.locals and reports through the ErrorPrinter
ResolveOutcome(r) ==
    /\ resolver' = [r EXCEPT !.reported = <<>>]
    /\ errorPrinter' = report(errorPrinter, r.reported)
    /\ interp' = [interp EXCEPT !.locals = r.locals]
    /\ phase' = IF r.panic THEN "crashed" ELSE phase

\* resolveStatements, one turn of its loop over the program
ResolveStatement ==
    /\ phase = "resolve"
    /\ resolved < Len(syntax.statements)
    /\ ResolveOutcome(resolveStatement(resolver, syntax.statements[resolved + 1]))
    /\ resolved' = resolved + 1
    /\ UNCHANGED <<mode, input, source, scanner, tokens, parser, statements, syntax, next>>

ResolveReturn ==
    /\ phase = "resolve"
    /\ resolved = Len(syntax.statements)
    /\ phase' = "resolved"
    /\ UNCHANGED <<mode, input, source, scanner, tokens, parser, statements, syntax,
                   resolver, resolved, interp, next, errorPrinter>>

\* Interpret is called with the statement list
StartInterpret ==
    /\ phase = "resolved"
    /\ mode = "core"
    /\ ~errorPrinter.hadError
    /\ phase' = "interpret"
    /\ next' = 1
    /\ UNCHANGED <<mode, input, source, scanner, tokens, parser, statements, syntax,
                   resolver, resolved, interp, errorPrinter>>

\* ErrorPrinter.RuntimeError: the type assertion err.(*runtimeError) panics on
\* any other error
RuntimeErrorSink(ep, err) ==
    IF err.k = "runtime"
    THEN [ep EXCEPT !.runtimeErrors = Append(@, [k |-> err.k, message |-> err.message]),
                    !.hadRuntimeError = TRUE]
    ELSE [ep EXCEPT !.runtimeErrors = Append(@, [k |-> err.k, message |-> "panic"])]

\* an Interpret that returns at the first error
ExecuteOutcomeStop(st) ==
    /\ interp' = [st EXCEPT !.err = NoError, !.val = NilValue]
    /\ IF st.err.k = "none"
       THEN UNCHANGED <<errorPrinter, phase>>
       ELSE /\ errorPrinter' = RuntimeErrorSink(errorPrinter, st.err)
            /\ phase' = IF mode = "core" THEN "done" ELSE "read"

\* what Interpret does with the error of one statement: lines 39-41
ExecuteOutcome(st) ==
    /\ interp' = [st EXCEPT !.err = NoError, !.val = NilValue]
    /\ IF st.err.k = "none"
       THEN UNCHANGED <<errorPrinter, phase>>
       ELSE IF st.err.k = "panic"
       THEN phase' = "crashed" /\ UNCHANGED errorPrinter
       ELSE /\ errorPrinter' = RuntimeErrorSink(errorPrinter, st.err)
            /\ phase' = IF st.err.k = "runtime" THEN phase ELSE "crashed"

\* Interpret, one turn of its loop: lines 38-42
InterpretStatement ==
    /\ phase = "interpret"
    /\ next <= Len(syntax.statements)
    /\ ExecuteOutcome(execute(interp, syntax.statements[next]))
    /\ next' = next + 1
    /\ UNCHANGED <<mode, input, source, scanner, tokens, parser, statements, syntax,
                   resolver, resolved>>

InterpretReturn ==
    /\ phase = "interpret"
    /\ next > Len(syntax.statements)
    /\ phase' = IF mode = "core" THEN "done" ELSE "read"
    /\ UNCHANGED <<mode, input, source, scanner, tokens, parser, statements, syntax,
                   resolver, resolved, interp, next, errorPrinter>>

Next ==
    \/ ParseDeclaration
    \/ ParseReturn
    \/ SkipOnError
    \/ StartResolver
    \/ ResolveStatement
    \/ ResolveReturn
    \/ StartInterpret
    \/ InterpretStatement
    \/ InterpretReturn

Spec == Init /\ [][Next]_vars

(***************************************************************************)
(* The parser alone: NewParser over a token list, then Parse.              *)
(***************************************************************************)
ParserPrograms == Programs \o LimitPrograms \o LoopPrograms

InitParser ==
    /\ mode = "core"
    /\ phase = "parse"
    /\ input = <<>>
    /\ source = <<>>
    /\ scanner = NewScanner
    /\ \E i \in DOMAIN ParserPrograms : tokens = ParserPrograms[i]
    /\ parser = NewParser
    /\ statements = <<>>
    /\ syntax = NilSyntax
    /\ resolver = NewResolver
    /\ resolved = 0
    /\ interp = NewInterpreter
    /\ next = 1
    /\ errorPrinter = NewErrorPrinter

NextParser ==
    \/ ParseDeclaration
    \/ ParseReturn

SpecParser == InitParser /\ [][NextParser]_vars

(***************************************************************************)
(* glox.go: Glox.runFile and Glox.run for a script, Glox.runPrompt for the *)
(* lines typed at the prompt.  input holds the source units still to be    *)
(* read: the text of the script, or the lines of standard input.           *)
(***************************************************************************)
\* print 1;
SrcPrint ==
    <<"p", "r", "i", "n", "t", " ", "1", ";">>
\* print 1; @
SrcStray ==
    <<"p", "r", "i", "n", "t", " ", "1", ";", " ", "@">>
\* { var a = 1; print a; }
SrcLocal ==
    <<"{", " ", "v", "a", "r", " ", "a", " ", "=", " ", "1", ";", " ", "p", "r", "i", "n",
      "t", " ", "a", ";", " ", "}">>
\* print ;
SrcParseError ==
    <<"p", "r", "i", "n", "t", " ", ";">>
\* 1 + 2
SrcSum ==
    <<"1", " ", "+", " ", "2">>
\* var x = 2;
SrcVar ==
    <<"v", "a", "r", " ", "x", " ", "=", " ", "2", ";">>
\* print x * 1.5 >= 3;
SrcUse ==
    <<"p", "r", "i", "n", "t", " ", "x", " ", "*", " ", "1", ".", "5", " ", ">", "=", " ",
      "3", ";">>
\* // say\nprint "hi" + "!"; /* done */
SrcText ==
    <<"/", "/", " ", "s", "a", "y", "\n", "p", "r", "i", "n", "t", " ", "\"", "h", "i",
      "\"", " ", "+", " ", "\"", "!", "\"", ";", " ", "/", "*", " ", "d", "o", "n", "e",
      " ", "*", "/">>
\* print "hi
SrcOpen ==
    <<"p", "r", "i", "n", "t", " ", "\"", "h", "i">>
\* while (true) break;
SrcBreak ==
    <<"w", "h", "i", "l", "e", " ", "(", "t", "r", "u", "e", ")", " ", "b", "r", "e", "a",
      "k", ";">>
\* print 1; y; print 2;
SrcRuntime ==
    <<"p", "r", "i", "n", "t", " ", "1", ";", " ", "y", ";", " ", "p", "r", "i", "n", "t",
      " ", "2", ";">>
\* var a = 1; a
SrcVarUse ==
    <<"v", "a", "r", " ", "a", " ", "=", " ", "1", ";", " ", "a">>
\* if (true) a
SrcNested ==
    <<"i", "f", " ", "(", "t", "r", "u", "e", ")", " ", "a">>
\* print 1.5; print "n" + 1.5; print 2; print "n" + 2; print 0 - 2.5;
SrcNumbers ==
    <<"p", "r", "i", "n", "t", " ", "1", ".", "5", ";", " ", "p", "r", "i", "n", "t", " ",
      "\"", "n", "\"", " ", "+", " ", "1", ".", "5", ";", " ", "p", "r", "i", "n", "t",
      " ", "2", ";", " ", "p", "r", "i", "n", "t", " ", "\"", "n", "\"", " ", "+", " ",
      "2", ";", " ", "p", "r", "i", "n", "t", " ", "0", " ", "-", " ", "2", ".", "5", ";">>
\* and break class else false fun for if nil or print return super this true var while
\* android breaks _if
SrcKeywords ==
    <<"a", "n", "d", " ", "b", "r", "e", "a", "k", " ", "c", "l", "a", "s", "s", " ", "e",
      "l", "s", "e", " ", "f", "a", "l", "s", "e", " ", "f", "u", "n", " ", "f", "o", "r",
      " ", "i", "f", " ", "n", "i", "l", " ", "o", "r", " ", "p", "r", "i", "n", "t", " ",
      "r", "e", "t", "u", "r", "n", " ", "s", "u", "p", "e", "r", " ", "t", "h", "i", "s",
      " ", "t", "r", "u", "e", " ", "v", "a", "r", " ", "w", "h", "i", "l", "e", " ", "a",
      "n", "d", "r", "o", "i", "d", " ", "b", "r", "e", "a", "k", "s", " ", "_", "i", "f">>
\* ( ) { } , . - + ; / * ? :
SrcCharacters ==
    <<"(", " ", ")", " ", "{", " ", "}", " ", ",", " ", ".", " ", "-", " ", "+", " ", ";",
      " ", "/", " ", "*", " ", "?", " ", ":">>

Inputs ==
    <<[mode |-> "file", input |-> <<SrcPrint>>],
      [mode |-> "file", input |-> <<SrcStray>>],
      [mode |-> "file", input |-> <<SrcLocal>>],
      [mode |-> "file", input |-> <<SrcParseError>>],
      [mode |-> "file", input |-> <<SrcText>>],
      [mode |-> "file", input |-> <<SrcOpen>>],
      [mode |-> "file", input |-> <<SrcBreak>>],
      [mode |-> "file", input |-> <<SrcRuntime>>],
      [mode |-> "file", input |-> <<SrcNumbers>>],
      [mode |-> "repl", input |-> <<SrcStray, SrcPrint>>],
      [mode |-> "repl", input |-> <<SrcVar, SrcUse, SrcSum>>],
      [mode |-> "repl", input |-> <<SrcParseError, SrcLocal>>],
      [mode |-> "repl", input |-> <<SrcOpen, SrcBreak>>],
      [mode |-> "repl", input |-> <<SrcVarUse, SrcNested>>]>>

\* NewGlox, and the arguments Glox.Run is given
InitGlox ==
    /\ \E i \in DOMAIN Inputs : mode = Inputs[i].mode /\ input = Inputs[i].input
    /\ phase = "read"
    /\ source = <<>>
    /\ scanner = NewScanner
    /\ tokens = <<>>
    /\ parser = NewParser
    /\ statements = <<>>
    /\ syntax = NilSyntax
    /\ resolver = NewResolver
    /\ resolved = 0
    /\ interp = NewInterpreter
    /\ next = 1
    /\ errorPrinter = NewErrorPrinter

\* runFile reads the script and run makes the Scanner: lines 40-45, 86
RunFile ==
    /\ phase = "read"
    /\ mode = "file"
    /\ input # <<>>
    /\ source' = Head(input)
    /\ input' = Tail(input)
    /\ scanner' = NewScanner
    /\ interp' = [interp EXCEPT !.executed = 0]
    /\ phase' = "scan"
    /\ UNCHANGED <<mode, tokens, parser, statements, syntax, resolver, resolved, next,
                   errorPrinter>>

\* runFile after run: lines 47-53
RunFileExit ==
    /\ phase = "read"
    /\ mode = "file"
    /\ input = <<>>
    /\ phase' = "done"
    /\ UNCHANGED <<mode, input, source, scanner, tokens, parser, statements, syntax,
                   resolver, resolved, interp, next, errorPrinter>>

\* runPrompt, a turn of its loop that reads a line: lines 59-65
PromptLine ==
    /\ phase = "read"
    /\ mode = "repl"
    /\ input # <<>>
    /\ errorPrinter' = [errorPrinter EXCEPT !.hadError = FALSE]
    /\ source' = Head(input)
    /\ input' = Tail(input)
    /\ scanner' = NewScanner
    /\ interp' = [interp EXCEPT !.executed = 0]
    /\ phase' = "scan"
    /\ UNCHANGED <<mode, tokens, parser, statements, syntax, resolver, resolved, next>>

\* runPrompt at the end of standard input: lines 59-64
PromptEnd ==
    /\ phase = "read"
    /\ mode = "repl"
    /\ input = <<>>
    /\ errorPrinter' = [errorPrinter EXCEPT !.hadError = FALSE]
    /\ phase' = "done"
    /\ UNCHANGED <<mode, input, source, scanner, tokens, parser, statements, syntax,
                   resolver, resolved, interp, next>>

\* what ScanTokens does with the scanner after one scanToken
ScanOutcome(sc) ==
    /\ scanner' = [sc EXCEPT !.reported = <<>>]
    /\ errorPrinter' = report(errorPrinter, sc.reported)
    /\ phase' = IF sc.panic THEN "crashed" ELSE phase

\* ScanTokens, one turn of its loop: lines 51-54
ScanToken ==
    /\ phase = "scan"
    /\ ~scIsAtEnd(scanner)
    /\ ScanOutcome(scanToken([scanner EXCEPT !.start = scanner.current]))
    /\ UNCHANGED <<mode, input, source, tokens, parser, statements, syntax, resolver,
                   resolved, interp, next>>

\* ScanTokens after its loop, and NewParser on the tokens: lines 56-57
ScanReturn ==
    /\ phase = "scan"
    /\ scIsAtEnd(scanner)
    /\ scanner' = addToken(scanner, "EOF")
    /\ tokens' = addToken(scanner, "EOF").tokens
    /\ parser' = [NewParser EXCEPT !.allowExpression = (mode = "repl")]
    /\ statements' = <<>>
    /\ phase' = "parse"
    /\ UNCHANGED <<mode, input, source, syntax, resolver, resolved, interp, next,
                   errorPrinter>>

\* what ParseREPL does with the (Stmt, error) pair of one declaration
ParseREPLOutcome(d) ==
    /\ errorPrinter' = report(errorPrinter, d.p.reported)
    /\ IF d.err
       THEN /\ syntax' = NilSyntax
            /\ phase' = "parsed"
            /\ parser' = [d.p EXCEPT !.reported = <<>>]
            /\ UNCHANGED statements
       ELSE /\ statements' = Append(statements, d.n)
            /\ IF d.p.foundExpression /\ d.n.k = "Expression"
               THEN /\ syntax' = [k |-> "expr", expression |-> d.n.expression]
                    /\ phase' = "parsed"
                    /\ parser' = [d.p EXCEPT !.reported = <<>>]
               ELSE /\ parser' = [d.p EXCEPT !.reported = <<>>, !.allowExpression = FALSE]
                    /\ UNCHANGED <<syntax, phase>>

\* ParseREPL, one turn of its loop
ParseREPLDeclaration ==
    /\ phase = "parse"
    /\ mode = "repl"
    /\ ~isAtEnd(parser)
    /\ ParseREPLOutcome(rule("declaration", parser))
    /\ UNCHANGED <<mode, input, source, scanner, tokens, resolver, resolved, interp, next>>

\* ParseREPL, the end of its loop
ParseREPLReturn ==
    /\ phase = "parse"
    /\ mode = "repl"
    /\ isAtEnd(parser)
    /\ syntax' = [k |-> "stmts", statements |-> statements]
    /\ phase' = "parsed"
    /\ UNCHANGED <<mode, input, source, scanner, tokens, parser, statements, resolver,
                   resolved, interp, next, errorPrinter>>

\* run returns without interpreting: lines 92-94
RunSkip ==
    /\ phase = "parsed"
    /\ mode = "file"
    /\ errorPrinter.hadError
    /\ phase' = "read"
    /\ UNCHANGED <<mode, input, source, scanner, tokens, parser, statements, syntax,
                   resolver, resolved, interp, next, errorPrinter>>

\* run hands the statements to Interpret: line 96
RunInterpret ==
    /\ phase = "parsed"
    /\ mode = "file"
    /\ ~errorPrinter.hadError
    /\ phase' = "interpret"
    /\ next' = 1
    /\ UNCHANGED <<mode, input, source, scanner, tokens, parser, statements, syntax,
                   resolver, resolved, interp, errorPrinter>>

\* runPrompt, the type switch on what ParseREPL returned: no case for nil
PromptNothing ==
    /\ phase = "parsed"
    /\ mode = "repl"
    /\ syntax.k = "nil"
    /\ phase' = "read"
    /\ UNCHANGED <<mode, input, source, scanner, tokens, parser, statements, syntax,
                   resolver, resolved, interp, next, errorPrinter>>

\* runPrompt, case []Stmt: lines 74-75
PromptInterpret ==
    /\ phase = "parsed"
    /\ mode = "repl"
    /\ syntax.k = "stmts"
    /\ phase' = "interpret"
    /\ next' = 1
    /\ UNCHANGED <<mode, input, source, scanner, tokens, parser, statements, syntax,
                   resolver, resolved, interp, errorPrinter>>

\* InterpretREPL and the line runPrompt prints for its result
EvaluateOutcome(st) ==
    IF st.err.k = "none"
    THEN /\ interp' = [st EXCEPT !.val = NilValue,
                                 !.out = IF stringify(st.val) # ""
                                         THEN Append(@, "= " \o stringify(st.val)) ELSE @]
         /\ phase' = "read"
         /\ UNCHANGED errorPrinter
    ELSE /\ interp' = [st EXCEPT !.err = NoError, !.val = NilValue]
         /\ IF st.err.k = "panic"
            THEN phase' = "crashed" /\ UNCHANGED errorPrinter
            ELSE /\ errorPrinter' = RuntimeErrorSink(errorPrinter, st.err)
                 /\ phase' = IF st.err.k = "runtime" THEN "read" ELSE "crashed"

\* runPrompt, case *Expression: lines 76-80
PromptEvaluate ==
    /\ phase = "parsed"
    /\ mode = "repl"
    /\ syntax.k = "expr"
    /\ EvaluateOutcome(evaluate(interp, syntax.expression))
    /\ UNCHANGED <<mode, input, source, scanner, tokens, parser, statements, syntax,
                   resolver, resolved, next>>

NextGlox ==
    \/ RunFile
    \/ RunFileExit
    \/ PromptLine
    \/ PromptEnd
    \/ ScanToken
    \/ ScanReturn
    \/ ParseDeclaration
    \/ ParseReturn
    \/ ParseREPLDeclaration
    \/ ParseREPLReturn
    \/ RunSkip
    \/ RunInterpret
    \/ PromptNothing
    \/ PromptInterpret
    \/ PromptEvaluate
    \/ InterpretStatement
    \/ InterpretReturn

SpecGlox == InitGlox /\ [][NextGlox]_vars

(***************************************************************************)
(* The scanner alone: NewScanner on a source, then ScanTokens.  The        *)
(* sources are every text of at most MaxSource bytes over Alphabet, the    *)
(* keywords and single characters, and numbers too long for a float64.     *)
(***************************************************************************)
MaxSource == 4
Alphabet == {"a", "1", ".", "\"", "/", "*", "\n", "@"}
Texts == UNION {[1..n -> Alphabet] : n \in 0..MaxSource}

\* 999...9 with 310 digits, and 1.5 after it
SrcLongNumber == [i \in 1..310 |-> "9"] \o <<" ", "1", ".", "5">>
\* 2^1024 - 2^970
SrcOverflow == Overflow64

ScannerSources == Texts \cup {SrcKeywords, SrcCharacters, SrcLongNumber, SrcOverflow}

InitScanner ==
    /\ mode = "file"
    /\ phase = "scan"
    /\ input = <<>>
    /\ source \in ScannerSources
    /\ scanner = NewScanner
    /\ tokens = <<>>
    /\ parser = NewParser
    /\ statements = <<>>
    /\ syntax = NilSyntax
    /\ resolver = NewResolver
    /\ resolved = 0
    /\ interp = NewInterpreter
    /\ next = 1
    /\ errorPrinter = NewErrorPrinter

NextScanner ==
    \/ ScanToken
    \/ ScanReturn

SpecScanner == InitScanner /\ [][NextScanner]_vars

(***************************************************************************)
(* What the properties below speak of.                                     *)
(***************************************************************************)
Log == interp.log
Events(kind) == {i \in DOMAIN Log : Log[i].e = kind}
Accesses == {i \in DOMAIN Log : Log[i].e \in {"hop", "name"}}
Finished == phase \in {"done", "crashed"}

\* the nodes directly under a node of the syntax tree
Children(node) ==
    CASE node.k = "Block" -> node.statements
      [] node.k = "Var" -> <<node.initializer>>
      [] node.k = "Print" -> <<node.expression>>
      [] node.k = "Expression" -> <<node.expression>>
      [] node.k = "If" -> <<node.condition, node.thenBranch, node.elseBranch>>
      [] node.k = "While" -> <<node.condition, node.body>>
      [] node.k = "Return" -> <<node.value>>
      [] node.k = "Function" -> <<node.function>>
      [] node.k = "Class" -> node.methods
      [] node.k = "FunctionExpr" -> node.body
      [] node.k = "Assign" -> <<node.value>>
      [] node.k = "Call" -> <<node.callee>> \o node.arguments
      [] node.k \in {"Binary", "Logical"} -> <<node.left, node.right>>
      [] node.k = "Conditional" -> <<node.cond, node.consequent, node.alternate>>
      [] node.k = "Unary" -> <<node.right>>
      [] node.k = "Grouping" -> <<node.expression>>
      [] node.k = "Get" -> <<node.object>>
      [] node.k = "Set" -> <<node.object, node.value>>
      [] OTHER -> <<>>

\* every node of a list of trees, parents first
RECURSIVE Nodes(_)
Nodes(trees) ==
    IF trees = <<>> THEN <<>>
    ELSE IF Len(trees) = 1 THEN trees \o Nodes(Children(trees[1]))
    ELSE Nodes(SubSeq(trees, 1, Len(trees) \div 2))
             \o Nodes(SubSeq(trees, Len(trees) \div 2 + 1, Len(trees)))

Program == IF syntax.k = "stmts" THEN syntax.statements ELSE <<>>

(***************************************************************************)
(* Variable resolution and environments.                                   *)
(***************************************************************************)
\* C1: every read or write through the side-table walks its hops from the
\* current environment to an existing environment, never past the root,
\* whose map already holds a binding for the name; no such read yields nil
\* because the binding is missing.
C1_HopAddressedBindingExists ==
    \A i \in Events("hop") : Log[i].target >= 1 /\ Log[i].bound

\* C2: a variable use inside a function body refers to the same declaration
\* on every call of that function: two accesses of the same node made by
\* invocations of the same function object, to a binding outside the
\* invocation, reach the same environment; scenario 1 prints global twice.
C2_SameDeclarationOnEveryCall ==
    /\ \A i, j \in Accesses :
          (/\ Log[i].id = Log[j].id
           /\ Log[i].frame # 0 /\ Log[i].frame = Log[j].frame
           /\ Log[i].bound /\ Log[j].bound
           /\ Log[i].target <= Log[i].closure /\ Log[j].target <= Log[j].closure)
          => Log[i].target = Log[j].target
    /\ (Finished /\ tokens = ProgScenario1) => interp.out = <<"global", "global">>
    /\ (Finished /\ tokens = ProgShadow) => interp.out = <<"outer", "outer">>

\* a second call reads the node after the block declared its own variable of
\* that name: a walk by name would now stop at another environment
C2_Witness ==
    \E i, j \in Accesses :
        /\ i < j /\ Log[i].id = Log[j].id
        /\ Log[i].frame # 0 /\ Log[i].frame = Log[j].frame
        /\ Log[i].bound /\ Log[j].bound /\ Log[j].target <= Log[j].closure
        /\ Log[j].dynamic # Log[j].target
        /\ Log[i].dynamic = Log[i].target

\* C3: every invocation of a user-defined function runs in a freshly created
\* environment whose enclosing environment is the closure, the environment
\* that was current when the function object was made (for a bound method,
\* the environment Bind made to hold this), and that no active invocation
\* uses; an inner recursive call leaves the outer call's parameters alone.
C3_FreshEnvironmentOverClosure ==
    /\ \A i \in Events("call") :
          /\ Log[i].fresh
          /\ Log[i].environment \notin Log[i].active
          /\ Log[i].enclosing = Log[i].closure
          /\ \/ \E j \in Events("function") :
                   j < i /\ Log[j].ptr = Log[i].ptr /\ Log[j].current = Log[i].enclosing
             \/ \E j \in Events("bind") :
                   j < i /\ Log[j].ptr = Log[i].ptr /\ Log[j].closure = Log[i].enclosing
    /\ (Finished /\ tokens = ProgDown) => interp.out = <<"0", "1", "2">>

\* a function is called while an invocation of it is active, from an
\* environment that is not its closure
C3_Witness ==
    \E i \in Events("call") :
        /\ Log[i].ptr \in Log[i].running
        /\ Log[i].caller # Log[i].closure
        /\ Log[i].enclosing = Log[i].closure

\* C4: after executeBlock returns, normally, with a runtime error, or with a
\* break or return signal, Interpreter.environment is what it was before the
\* call; between two top-level statements it is the globals environment.
C4_ExecuteBlockRestoresEnvironment ==
    /\ \A i \in Events("executeBlock") : Log[i].after = Log[i].previous
    /\ phase = "interpret" => interp.environment = interp.globals

\* blocks were left in each of the four ways, and the next statement is due
C4_Witness ==
    /\ \A kind \in {"none", "runtime", "break", "return"} :
          \E i \in Events("executeBlock") :
              Log[i].err = kind /\ Log[i].environment # Log[i].previous
    /\ phase = "interpret"

(***************************************************************************)
(* Non-local control transfers and the parser.                             *)
(***************************************************************************)
\* C5: no break signal and no return signal propagates out of a top-level
\* statement into the error handler of Interpret: ErrorPrinter.RuntimeError
\* is only ever called with a runtime error.
C5_OnlyRuntimeErrorsReachSink ==
    \A i \in DOMAIN errorPrinter.runtimeErrors : errorPrinter.runtimeErrors[i].k = "runtime"

\* a break statement under node with no while loop around it inside the
\* function body that contains it
RECURSIVE StrayBreak(_, _)
StrayBreak(node, inLoop) ==
    CASE node.k = "Break" -> ~inLoop
      [] node.k = "While" ->
            StrayBreak(node.condition, inLoop) \/ StrayBreak(node.body, TRUE)
      [] node.k = "FunctionExpr" ->
            \E i \in DOMAIN node.body : StrayBreak(node.body[i], FALSE)
      [] OTHER -> \E i \in DOMAIN Children(node) : StrayBreak(Children(node)[i], inLoop)

\* C6: the parser accepts a break statement only inside a while-loop body of
\* the same function: a break whose only enclosing loop lies outside the
\* function body that contains it is rejected with a parse error.
C6_BreakOnlyInsideLoopOfSameFunction ==
    \A i \in DOMAIN Program : ~StrayBreak(Program[i], FALSE)

\* the commas at nesting depth 0 between token i and the opening parenthesis
\* to its left
RECURSIVE TopLevelCommas(_, _)
TopLevelCommas(i, depth) ==
    IF tokens[i].type \in {"RIGHT_PAREN", "RIGHT_BRACE"} THEN TopLevelCommas(i - 1, depth + 1)
    ELSE IF tokens[i].type \in {"LEFT_PAREN", "LEFT_BRACE"} THEN
        IF depth = 0 THEN 0 ELSE TopLevelCommas(i - 1, depth - 1)
    ELSE IF tokens[i].type = "COMMA" /\ depth = 0 THEN 1 + TopLevelCommas(i - 1, depth)
    ELSE TopLevelCommas(i - 1, depth)

\* the arguments written before the closing parenthesis that follows token paren
ArgumentsWritten(paren) ==
    IF tokens[paren].type = "LEFT_PAREN" THEN 0 ELSE 1 + TopLevelCommas(paren, 0)

\* C7: every comma at the top level of an argument list separates two
\* arguments, also after an argument that holds a completed nested call, so
\* f(g(a), b, c) is a Call with 3 arguments; and when the outermost call is
\* closed the comma operator is enabled again.
C7_TopLevelCommasSeparateArguments ==
    /\ \A i \in DOMAIN Nodes(Program) :
          Nodes(Program)[i].k = "Call" =>
              Len(Nodes(Program)[i].arguments) = ArgumentsWritten(Nodes(Program)[i].paren)
    /\ (phase = "parsed" /\ syntax.k = "stmts") => ~parser.disableCommaExpr

\* C8: after a parse error the parser reports it, synchronizes, and the loop
\* of Parse goes on with the remaining declarations up to EOF, so a second
\* syntax error later in the source is reported in the same pass.
C8_ParseContinuesAfterError ==
    /\ phase # "parse" => isAtEnd(parser)
    /\ (phase # "parse" /\ tokens = ProgTwoErrors) => Len(errorPrinter.reported) = 2

\* C9: when the scanner, the parser or the resolver has reported an error for
\* a source unit (a whole script or one line typed at the prompt), so that
\* hadError is set, the interpreter executes no statement and evaluates no
\* expression of that unit.
C9_NothingRunsAfterCompileError ==
    errorPrinter.hadError => interp.executed = 0

\* C10: for a source unit whose scan and parse report no error, the resolver
\* has run over the whole statement list before the evaluator executes the
\* first statement, so no statement is executed that the resolver has not
\* visited.
C10_ResolverRunsBeforeEvaluator ==
    (interp.executed > 0 /\ syntax.k = "stmts") =>
        (phase # "resolve" /\ resolved = Len(syntax.statements))

(***************************************************************************)
(* Runtime errors, calls and initializers.                                 *)
(***************************************************************************)
\* the runtime errors ErrorPrinter.RuntimeError has printed
Printed == {i \in DOMAIN errorPrinter.runtimeErrors : errorPrinter.runtimeErrors[i].k = "runtime"}

\* C11: every runtime error raised while a statement executes, at any call
\* depth and also inside the init method of a class that is being called,
\* aborts the statement and reaches Interpret, which reports it and sets
\* hadRuntimeError: between two statements as many errors were printed as
\* were raised, none is dropped.
C11_RuntimeErrorsReachInterpret ==
    phase \in {"interpret", "done"} =>
        /\ Cardinality(Events("raise")) = Cardinality(Printed)
        /\ Events("raise") # {} => errorPrinter.hadRuntimeError

\* C12: in script mode, after a top-level statement has raised a runtime
\* error, Interpret goes on with the next top-level statement, one after the
\* other in source order, until the list is exhausted; and hadRuntimeError,
\* once set, stays set.
C12_InterpretContinuesAfterRuntimeError ==
    [][/\ (mode = "file" /\ phase = "interpret" /\ next <= Len(syntax.statements)) =>
             \/ phase' = "interpret" /\ next' = next + 1
             \/ phase' = "crashed" /\ Printed' = Printed
       /\ (mode = "file" /\ phase = "interpret" /\ phase' = "read") =>
             next > Len(syntax.statements)
       /\ errorPrinter.hadRuntimeError => errorPrinter'.hadRuntimeError]_vars

\* a script whose second statement raised a runtime error has run its third
C12_Witness ==
    /\ mode = "file"
    /\ phase = "read"
    /\ source = SrcRuntime
    /\ Cardinality(Printed) = 1
    /\ errorPrinter.hadRuntimeError
    /\ interp.out = <<"1", "2">>

\* C13: a call whose argument count differs from the arity of the callee,
\* a user function, the native function or a class, yields the runtime error
\* Expected N arguments but got M. at the closing parenthesis, and the callee
\* is not invoked: the error is the very next thing that happens, before any
\* call environment, body statement, instance or init; a callee is only ever
\* invoked with as many arguments as it has parameters.
C13_ArityMismatchDoesNotInvoke ==
    /\ \A i \in Events("apply") :
          Log[i].arguments # Log[i].arity =>
              /\ i < Len(Log)
              /\ Log[i + 1] = [e |-> "raise", token |-> ")",
                               message |-> "Expected " \o ToString(Log[i].arity)
                                           \o " arguments but got "
                                           \o ToString(Log[i].arguments) \o "."]
    /\ \A i \in Events("call") \cup Events("instance") :
          /\ i > 1
          /\ Log[i - 1].e = "apply" => Log[i - 1].arguments = Log[i - 1].arity
    /\ (Finished /\ tokens = ProgArity) => interp.out = <<"9">>

\* calls with too few and with too many arguments were made to a function,
\* to the native function, to a class with init and to a class without, and
\* nothing was invoked
C13_Witness ==
    /\ Finished
    /\ \A kind \in {"fun", "native", "class"} :
          \E i \in Events("apply") : Log[i].callee = kind /\ Log[i].arguments # Log[i].arity
    /\ \E i \in Events("apply") : Log[i].arguments > Log[i].arity /\ Log[i].callee = "fun"
    /\ \E i \in Events("apply") : Log[i].arguments < Log[i].arity /\ Log[i].callee = "fun"
    /\ Cardinality({i \in Events("apply") : Log[i].callee = "class"}) = 2
    /\ Events("call") = {} /\ Events("instance") = {}

\* C14: a call of a bound initializer, made by instantiating the class or
\* written obj.init(...), yields the instance its this is bound to, whether
\* the body ran to its end or executed return; a call of any other function
\* yields the value its return signal carried, and nil when the body ran to
\* its end or executed return without a value.
C14_InitializerYieldsInstance ==
    /\ \A i \in Events("result") :
          IF Log[i].isInitializer
          THEN \E j \in Events("bind") :
                  /\ j < i
                  /\ Log[j].ptr = Log[i].ptr
                  /\ Log[i].val.t = "instance"
                  /\ Log[i].val.ptr = Log[j].instance
          ELSE Log[i].val = (IF Log[i].signal = "return" THEN Log[i].carried ELSE NilValue)
    /\ (Finished /\ tokens = ProgInitializer) =>
          interp.out = <<"true", "true", "false", "nil", "nil", "7">>

\* initializers were called by instantiation and directly, ending both ways,
\* and functions returned with a value, without one and by reaching the end
C14_Witness ==
    /\ Finished /\ tokens = ProgInitializer
    /\ \A signal \in {"return", "end"} :
          Cardinality({i \in Events("result") :
                          Log[i].isInitializer /\ Log[i].signal = signal}) = 2
    /\ \E i \in Events("result") :
          ~Log[i].isInitializer /\ Log[i].signal = "return" /\ Log[i].val = NumberValue(7)
    /\ \E i \in Events("result") :
          ~Log[i].isInitializer /\ Log[i].signal = "return" /\ Log[i].val = NilValue
    /\ \E i \in Events("result") : ~Log[i].isInitializer /\ Log[i].signal = "end"

(***************************************************************************)
(* Resolver: own initializer, return, redeclaration, hop distances         *)
(***************************************************************************)

\* the messages the resolver and the parser reported
Messages == {errorPrinter.reported[i].message : i \in DOMAIN errorPrinter.reported}

\* C15: var a = a; in a local scope is reported by the resolver as Can't
\* read local variable in its own initializer.; at top level, a not defined
\* before, it is accepted and runs without a runtime error: a is bound to
\* nil, the initializer reads nil, and a ends up nil.
C15_OwnInitializer ==
    /\ (Finished /\ tokens = ProgLocalOwnInitializer) =>
          /\ "Can't read local variable in its own initializer." \in Messages
          /\ interp.out = <<>>
    /\ (Finished /\ tokens = ProgTopOwnInitializer) =>
          /\ Messages = {}
          /\ Printed = {}
          /\ interp.out = <<"nil">>

\* the nodes of a list of trees that are not inside a function body
RECURSIVE Outside(_)
Outside(trees) ==
    IF trees = <<>> THEN <<>>
    ELSE IF Len(trees) = 1
         THEN IF trees[1].k = "FunctionExpr" THEN <<>>
              ELSE trees \o Outside(Children(trees[1]))
    ELSE Outside(SubSeq(trees, 1, Len(trees) \div 2))
             \o Outside(SubSeq(trees, Len(trees) \div 2 + 1, Len(trees)))

\* how many of the nodes are return statements
Returns(nodes) == Cardinality({i \in DOMAIN nodes : nodes[i].k = "Return"})

TopLevelReturnReports ==
    {i \in DOMAIN errorPrinter.reported :
        errorPrinter.reported[i].message = "Can't return from top-level code."}

\* C16: the resolver reports Can't return from top-level code. for a return
\* statement if and only if the statement is not inside any function body:
\* after each top-level statement the reports count the return statements
\* outside functions among the statements resolved so far, each at its
\* return keyword, and currentFunction is NONE again, so a return after a
\* function declaration is rejected and a return after a nested function
\* inside a function is accepted.
C16_ReturnOnlyInsideFunction ==
    /\ (mode = "core" /\ phase \in {"resolve", "resolved"}) =>
          /\ Cardinality(TopLevelReturnReports)
                 = Returns(Outside(SubSeq(Program, 1, resolved)))
          /\ \A i \in TopLevelReturnReports : errorPrinter.reported[i].where = "return"
          /\ resolver.currentFunction = "NONE"
    /\ (Finished /\ tokens = ProgReturnAfterNested) =>
          Messages = {} /\ interp.out = <<"2">>

\* the returns written after a function declaration, in a block and in a
\* loop at top level were reported, the one inside the function was not
C16_Witness ==
    /\ phase = "resolved" /\ tokens = ProgReturnAfterFunction
    /\ Cardinality(TopLevelReturnReports) = 3
    /\ Returns(Nodes(Program)) = 4

\* the outermost function expressions written in a list of expressions
RECURSIVE FunctionsIn(_)
FunctionsIn(trees) ==
    IF trees = <<>> THEN <<>>
    ELSE IF Len(trees) = 1
         THEN IF trees[1].k = "FunctionExpr" THEN trees
              ELSE FunctionsIn(Children(trees[1]))
    ELSE FunctionsIn(SubSeq(trees, 1, Len(trees) \div 2))
             \o FunctionsIn(SubSeq(trees, Len(trees) \div 2 + 1, Len(trees)))

\* the expressions and the statements written directly in a statement
ExpressionsOf(stmt) ==
    CASE stmt.k = "Var" -> <<stmt.initializer>>
      [] stmt.k \in {"Print", "Expression"} -> <<stmt.expression>>
      [] stmt.k = "Return" -> <<stmt.value>>
      [] stmt.k \in {"If", "While"} -> <<stmt.condition>>
      [] stmt.k = "Function" -> <<stmt.function>>
      [] stmt.k = "Class" -> [i \in DOMAIN stmt.methods |-> stmt.methods[i].function]
      [] OTHER -> <<>>
BranchesOf(stmt) ==
    CASE stmt.k = "If" -> <<stmt.thenBranch, stmt.elseBranch>>
      [] stmt.k = "While" -> <<stmt.body>>
      [] OTHER -> <<>>

\* Redeclarations(stmts, declared, local): how many declarations written in
\* the statements, or in anything nested in them, name something their own
\* scope already declares; declared holds the names of the scope the list
\* is written in, and local tells whether that scope is a local one
RECURSIVE Redeclarations(_, _, _), RedeclarationsInFunctions(_)
Redeclarations(stmts, declared, local) ==
    IF stmts = <<>> THEN 0
    ELSE LET stmt == Head(stmts)
             declares == stmt.k \in {"Var", "Function", "Class"}
         IN  (IF declares /\ local /\ stmt.name \in declared THEN 1 ELSE 0)
             + RedeclarationsInFunctions(FunctionsIn(ExpressionsOf(stmt)))
             + (IF stmt.k = "Block" THEN Redeclarations(stmt.statements, {}, TRUE)
                ELSE Redeclarations(BranchesOf(stmt), declared, local))
             + Redeclarations(Tail(stmts),
                              IF declares THEN declared \cup {stmt.name} ELSE declared, local)
RedeclarationsInFunctions(fns) ==
    IF fns = <<>> THEN 0
    ELSE LET parameters == Head(fns).parameters IN
         Cardinality({i \in DOMAIN parameters :
                         \E j \in 1..(i - 1) : parameters[j] = parameters[i]})
         + Redeclarations(Head(fns).body, {parameters[i] : i \in DOMAIN parameters}, TRUE)
         + RedeclarationsInFunctions(Tail(fns))

RedeclarationReports ==
    {i \in DOMAIN errorPrinter.reported :
        errorPrinter.reported[i].message = "Already variable with this name in this scope."}

\* C17: declaring, by var, by a function declaration or as a parameter, a
\* name that the same local scope already declares is reported as Already
\* variable with this name in this scope., the parameters of a function and
\* the declarations at the top of its body sharing one scope; declaring the
\* name again in a nested scope, or again at global level, reports nothing.
\* After each top-level statement there are as many reports as there are such
\* declarations in the statements resolved so far.
C17_RedeclarationInSameLocalScope ==
    /\ (mode = "core" /\ phase \in {"resolve", "resolved"}) =>
          Cardinality(RedeclarationReports)
             = Redeclarations(SubSeq(Program, 1, resolved), {}, FALSE)
    /\ (phase = "resolved" /\ tokens = ProgRedeclare) =>
          [i \in DOMAIN errorPrinter.reported |-> errorPrinter.reported[i].where]
             = <<"a", "a", "b", "b", "c">>
    /\ (Finished /\ tokens = ProgRedeclareQuiet) =>
          Messages = {} /\ interp.out = <<"4", "3", "2">>

\* a variable over a parameter, a repeated parameter, a variable and a
\* function over a variable of a block were reported; the global and the
\* nested redeclarations of the same program were not
C17_Witness ==
    /\ phase = "resolved" /\ tokens = ProgRedeclare
    /\ Cardinality(RedeclarationReports) = 5
    /\ Cardinality({i \in DOMAIN Nodes(Program) : Nodes(Program)[i].k = "Var"}) = 10

\* the scopes of a resolveLocal record that declare its name
Declaring(event) == {i \in DOMAIN event.scopes : event.name \in event.scopes[i]}

Innermost(indices) == CHOOSE i \in indices : \A j \in indices : j <= i

\* C18: for each Variable, Assign and This node the distance the resolver
\* records is the number of scopes between the innermost scope and the
\* innermost of the scopes that declare the name, 0 when that is the
\* innermost scope itself; when no scope of the stack declares the name the
\* side-table is left as it was; in either case the entry of every other
\* node is what it was before.
C18_HopDistance ==
    /\ \A k \in DOMAIN resolver.log :
          LET event == resolver.log[k] IN
          /\ \A id \in (DOMAIN event.before \cup DOMAIN event.after) \ {event.id} :
                /\ id \in DOMAIN event.before /\ id \in DOMAIN event.after
                /\ event.after[id] = event.before[id]
          /\ IF Declaring(event) = {}
             THEN event.after = event.before
             ELSE /\ event.id \in DOMAIN event.after
                  /\ event.after[event.id]
                        = Len(event.scopes) - Innermost(Declaring(event))
    /\ (Finished /\ tokens = ProgHops) => interp.out = <<"7">>

\* names were found in the innermost scope, one and two scopes out, in the
\* nearer of two scopes that declare them, and in no scope at all while the
\* side-table already had entries
C18_Witness ==
    /\ phase = "resolved" /\ tokens = ProgHops
    /\ \A depth \in 0..2 :
          \E k \in DOMAIN resolver.log :
              /\ resolver.log[k].id \in DOMAIN resolver.log[k].after
              /\ resolver.log[k].after[resolver.log[k].id] = depth
    /\ \E k \in DOMAIN resolver.log :
          /\ Cardinality(Declaring(resolver.log[k])) = 2
          /\ resolver.log[k].after[resolver.log[k].id] = 0
    /\ \E k \in DOMAIN resolver.log :
          /\ Declaring(resolver.log[k]) = {}
          /\ resolver.log[k].scopes # <<>>
          /\ resolver.log[k].before # EmptyMap
          /\ resolver.log[k].id \notin DOMAIN resolver.log[k].after

(***************************************************************************)
(* Evaluation order                                                        *)
(***************************************************************************)

\* the operands of a node in the order they are written
Operands(node) ==
    CASE node.k = "Binary" -> <<node.left, node.right>>
      [] node.k = "Call" -> <<node.callee>> \o node.arguments
      [] OTHER -> <<>>

\* the call expressions and the variable accesses written in an expression,
\* function bodies left out: the closing parentheses and the name tokens
CallsIn(expr) ==
    {Outside(<<expr>>)[i].paren :
        i \in {j \in DOMAIN Outside(<<expr>>) : Outside(<<expr>>)[j].k = "Call"}}
AccessesIn(expr) ==
    {Outside(<<expr>>)[i].id :
        i \in {j \in DOMAIN Outside(<<expr>>) :
                  Outside(<<expr>>)[j].k \in {"Variable", "Assign", "This"}}}

\* the records of a call expression, of a variable access, before position i
Before(i, paren) ==
    {k \in 1..(i - 1) : Log[k].e \in {"enter", "leave"} /\ Log[k].paren = paren}
AccessBefore(i, id) == {k \in 1..(i - 1) : k \in Accesses /\ Log[k].id = id}

\* the record at position i is the start of something written in expr
StartsIn(i, expr) ==
    \/ Log[i].e = "enter" /\ Log[i].paren \in CallsIn(expr)
    \/ i \in Accesses /\ Log[i].id \in AccessesIn(expr)

Latest(indices) == CHOOSE i \in indices : \A j \in indices : j <= i

\* before position i the expression has been evaluated, and what was started
\* in it has ended without error
Evaluated(i, expr) ==
    /\ expr.k = "Call" => Before(i, expr.paren) # {}
    /\ expr.k \in {"Variable", "Assign"} => AccessBefore(i, expr.id) # {}
    /\ \A c \in CallsIn(expr) :
          Before(i, c) # {} =>
              Log[Latest(Before(i, c))].e = "leave" /\ ~Log[Latest(Before(i, c))].failed
    /\ \A a \in AccessesIn(expr) :
          AccessBefore(i, a) # {} => Log[Latest(AccessBefore(i, a))].bound

\* C19: evaluation is left to right.  Whenever a call or a variable access
\* written in an operand of a Binary node, or in the callee or an argument of
\* a Call node, starts, every operand written before it has been evaluated
\* completely and without error: an earlier operand that is a call, a
\* variable or an assignment has taken place, and each call and access of an
\* earlier operand that has started at all has last ended without error, so
\* after an error in an earlier operand no later operand starts.
C19_LeftToRight ==
    /\ \A n \in DOMAIN Nodes(Program) :
          LET ops == Operands(Nodes(Program)[n]) IN
          \A i \in DOMAIN ops : \A j \in DOMAIN ops :
              i < j => \A e \in DOMAIN Log : StartsIn(e, ops[j]) => Evaluated(e, ops[i])
    /\ (Finished /\ tokens = ProgOrder) =>
          interp.out = <<"1", "2", "3", "7", "0", "-1", "6", "5">>

\* operands and arguments were evaluated in order, and what is written after
\* the failing operand of a sum and of two argument lists never started
C19_Witness ==
    /\ Finished /\ tokens = ProgOrder
    /\ interp.out = <<"1", "2", "3", "7", "0", "-1", "6", "5">>
    /\ Cardinality(Printed) = 3
    /\ \E i \in Events("leave") : Log[i].failed
    /\ \E i \in Accesses : ~Log[i].bound
    /\ \E n \in DOMAIN Nodes(Program) :
          /\ Nodes(Program)[n].k = "Call"
          /\ Len(Nodes(Program)[n].arguments) = 2
          /\ Nodes(Program)[n].callee.k = "Call"
          /\ \E e \in Accesses : Log[e].id \in AccessesIn(Nodes(Program)[n].arguments[2])

(***************************************************************************)
(* The prompt                                                              *)
(***************************************************************************)

\* C20: ParseREPL returns a single unwrapped expression exactly when the
\* last declaration of the line is an expression statement that reaches the
\* end of the tokens without its semicolon, also when complete statements
\* precede it on the line, as in var a = 1; a; a bare expression nested in
\* another statement is not returned as an expression.
C20_ParseREPLUnwrapsLastExpression ==
    (mode = "repl" /\ phase = "parsed") =>
        /\ source = SrcSum => syntax.k = "expr"
        /\ source = SrcVarUse =>
              /\ syntax.k = "expr"
              /\ syntax.expression.k = "Variable" /\ syntax.expression.name = "a"
              /\ ~errorPrinter.hadError
        /\ source \in {SrcVar, SrcUse, SrcNested} => syntax.k = "stmts"

(***************************************************************************)
(* The parser alone (SpecParser).                                          *)
(***************************************************************************)
Parsed == phase = "parsed"
Reports == errorPrinter.reported
\* the node and all below it keep the limits of functionBody and finishCall
RECURSIVE WithinLimits(_)
WithinLimits(node) ==
    /\ node.k = "FunctionExpr" => Len(node.parameters) <= MaxParameters
    /\ node.k = "Call" => Len(node.arguments) <= MaxArguments
    /\ \A i \in DOMAIN Children(node) : WithinLimits(Children(node)[i])
TooManyParameters == "Can't have more than 8 parameters."
TooManyArguments == "Can't have more than 255 arguments."

\* C21: a function with exactly 8 parameters and a call with exactly 255
\* arguments are accepted without a report; a 9th parameter is reported as
\* Can't have more than 8 parameters. and a 256th argument as Can't have
\* more than 255 arguments., each at the token where it starts; and no
\* FunctionExpr the parser built has more than 8 parameters, no Call more
\* than 255 arguments.
C21_ParserLimits ==
    /\ \A i \in DOMAIN statements : WithinLimits(statements[i])
    /\ (Parsed /\ tokens = ProgEightParameters) =>
          /\ Reports = <<>> /\ Len(Program) = 2
          /\ Len(Program[1].function.parameters) = MaxParameters
    /\ (Parsed /\ tokens = ProgMaxArguments) =>
          /\ Reports = <<>> /\ Len(Program) = 2
          /\ Len(Program[1].expression.arguments) = MaxArguments
    /\ (Parsed /\ tokens \in {ProgNineParameters, ProgNineMethodParameters,
                               ProgNineLambdaParameters}) =>
          Reports = <<[where |-> "j", message |-> TooManyParameters]>>
    /\ (Parsed /\ tokens = ProgTooManyArguments) =>
          Reports = <<[where |-> "1", message |-> TooManyArguments]>>

\* the call with 255 arguments was parsed into a Call of 255 arguments
C21_Witness ==
    /\ Parsed /\ tokens = ProgMaxArguments /\ Reports = <<>>
    /\ Program[1].expression.k = "Call"
    /\ Len(Program[1].expression.arguments) = MaxArguments

\* C28: after the report of a 9th parameter or a 256th argument the parser
\* goes on with the rest of the list and of the program: the limit error
\* alone aborts neither the declaration around it nor the parse, so Parse
\* reaches the end of the tokens and returns the three statements.
C28_LimitErrorRecovers ==
    (Parsed /\ tokens \in {ProgNineParameters, ProgTooManyArguments}) =>
        /\ Reports # <<>>
        /\ \A i \in DOMAIN Reports : Reports[i].message \in {TooManyParameters, TooManyArguments}
        /\ isAtEnd(parser)
        /\ syntax.k = "stmts" /\ Len(syntax.statements) = 3

(***************************************************************************)
(* Glox.Run (SpecGlox): what print writes.                                 *)
(***************************************************************************)

\* C22: print writes a number in its integer form only when the value is an
\* exact integer; 1.5 and -2.5 are written with their fraction, never cut to
\* an integer; and the text print writes for a number is the text + joins
\* to a string.
C22_NumberText ==
    (mode = "file" /\ phase = "read" /\ source = SrcNumbers) =>
        /\ interp.out = <<"1.5", "n1.5", "2", "n2", "-2.5">>
        /\ "n" \o interp.out[1] = interp.out[2]
        /\ "n" \o interp.out[3] = interp.out[4]

(***************************************************************************)
(* The scanner alone (SpecScanner).                                        *)
(***************************************************************************)
Scanned == phase = "parse"
Kinds == [i \in DOMAIN tokens |-> tokens[i].type]
Lexemes == [i \in DOMAIN tokens |-> tokens[i].lexeme]

\* C23: a lexeme of the shape of an identifier that is one of and, break,
\* class, else, false, fun, for, if, nil, or, print, return, super, this,
\* true, var, while is emitted with its keyword kind, any other one as
\* IDENTIFIER; and each of ( ) { } , . - + ; / * ? : is emitted as one
\* token of its own kind, without a report.
C23_LexemeKinds ==
    /\ (Scanned /\ source = SrcKeywords) =>
          /\ Kinds = <<"AND", "BREAK", "CLASS", "ELSE", "FALSE", "FUN", "FOR", "IF", "NIL",
                       "OR", "PRINT", "RETURN", "SUPER", "THIS", "TRUE", "VAR", "WHILE",
                       "IDENTIFIER", "IDENTIFIER", "IDENTIFIER", "EOF">>
          /\ Reports = <<>>
    /\ (Scanned /\ source = SrcCharacters) =>
          /\ Kinds = <<"LEFT_PAREN", "RIGHT_PAREN", "LEFT_BRACE", "RIGHT_BRACE", "COMMA",
                       "DOT", "MINUS", "PLUS", "SEMICOLON", "SLASH", "STAR",
                       "QUESTION_MARK", "COLON", "EOF">>
          /\ Lexemes = <<"(", ")", "{", "}", ",", ".", "-", "+", ";", "/", "*", "?", ":", "">>
          /\ Reports = <<>>

\* C24: ScanTokens terminates on every source: each scanToken consumes at
\* least one byte, start <= current <= len(source) always, the scan runs to
\* the end of the source whatever was reported, and the token list returned
\* ends with the one EOF token, of empty lexeme, and holds no other EOF.
C24_ScanTokensTerminates ==
    /\ scanner.start <= scanner.current /\ scanner.current <= Len(source)
    /\ phase \in {"scan", "parse"}
    /\ Scanned =>
          /\ scanner.current = Len(source)
          /\ tokens # <<>>
          /\ tokens[Len(tokens)] = Token("EOF", "", NilValue)
          /\ \A i \in 1..(Len(tokens) - 1) : tokens[i].type # "EOF"

(***************************************************************************)
(* Parse, Resolver, Interpret (Spec): instances.                           *)
(***************************************************************************)
\* the Sets of the same property of the same instance before the Get at i
SetsBefore(i) ==
    {j \in Events("set") : /\ j < i
                           /\ Log[j].instance = Log[i].instance
                           /\ Log[j].name = Log[i].name}
ClassOf(i) == interp.instances[Log[i].instance].class
\* the function values the interpreter had made before the Get at i
FunctionsBefore(i) ==
    {Log[j].ptr : j \in {k \in Events("function") \cup Events("bind") : k < i - 1}}

\* C25: a Get of a property that was Set on the instance yields the value of
\* the latest Set, also when the class has a method of that name; a Get of
\* a name never Set yields the method of the class bound to the instance, a
\* new function whose closure holds this -> the instance and nothing else
\* and encloses the closure of the method; a Get of a name that is neither
\* raises Undefined property 'NAME'. and leaves the fields as they were.
C25_FieldsShadowMethods ==
    /\ \A i \in Events("get") :
          LET sets == SetsBefore(i)
              methods == ClassOf(i).methods
              got == Log[i] IN
          /\ sets # {} => got.err = NoError /\ got.val = Log[Latest(sets)].val
          /\ (sets = {} /\ got.name \in DOMAIN methods) =>
                /\ got.err = NoError
                /\ got.val.t = "fun"
                /\ got.val.ptr \notin FunctionsBefore(i)
                /\ got.val.declaration = methods[got.name].declaration
                /\ got.val.isInitializer = methods[got.name].isInitializer
                /\ DOMAIN interp.envs[got.val.closure].values = {"this"}
                /\ interp.envs[got.val.closure].values["this"].t = "instance"
                /\ interp.envs[got.val.closure].values["this"].ptr = got.instance
                /\ interp.envs[got.val.closure].enclosing = methods[got.name].closure
          /\ (sets = {} /\ got.name \notin DOMAIN methods) =>
                /\ got.err.k = "runtime"
                /\ got.err.message = "Undefined property '" \o got.name \o "'."
                /\ got.after = got.before
    /\ (Finished /\ tokens = ProgFields) =>
          /\ interp.out = <<"5", "7", "8", "1", "<anonymous function>">>
          /\ Cardinality(Events("raise")) = 1

\* a field hid the method of its name, a method was bound where no field
\* was, and a name that is neither was asked for
C25_Witness ==
    /\ Finished /\ tokens = ProgFields
    /\ \E i \in Events("get") :
          SetsBefore(i) # {} /\ Log[i].name \in DOMAIN ClassOf(i).methods
    /\ \E i \in Events("get") :
          SetsBefore(i) = {} /\ Log[i].name \in DOMAIN ClassOf(i).methods
    /\ \E i \in Events("get") :
          /\ SetsBefore(i) = {} /\ Log[i].name \notin DOMAIN ClassOf(i).methods
          /\ Log[i].err.k = "runtime"

(***************************************************************************)
(* Parse, Resolver, Interpret (Spec): for loops.                           *)
(***************************************************************************)
Writes(node) == {i \in Accesses : Log[i].op = "write" /\ Log[i].id = node.id}
Reads(node) == {i \in Accesses : Log[i].op = "read" /\ Log[i].id = node.id}
TrueLiteral == [k |-> "Literal", value |-> BoolValue(TRUE)]
\* a while loop over the body and, after it, the increment
IsLoopWithIncrement(node) ==
    /\ node.k = "While"
    /\ node.body.k = "Block"
    /\ Len(node.body.statements) = 2
    /\ node.body.statements[2].k = "Expression"
    /\ node.body.statements[2].expression.k = "Assign"
\* the increment ran after each body that completed, and only then: its
\* k-th run comes after the k-th run of the assignment in the body
Alternate(body, increment) ==
    /\ Cardinality(Writes(body)) = Cardinality(Writes(increment))
    /\ \A i \in Writes(increment) :
          Cardinality({j \in Writes(body) : j < i})
              = Cardinality({j \in Writes(increment) : j < i}) + 1

\* C26: the parser turns a for statement into a block of the initializer
\* and a while loop over a block of the body and the increment, each block
\* only where the clause is present, with the literal true for an absent
\* condition.  The initializer runs once, in a scope that ends with the
\* loop; the increment runs after each body that completed; a break in the
\* body ends the loop without the increment (scenario 6 prints 0, 1, 2).
C26_ForIsWhile ==
    /\ (phase # "parse" /\ tokens = ProgFor /\ syntax.k = "stmts") =>
          /\ Program[2].k = "Block" /\ Len(Program[2].statements) = 2
          /\ Program[2].statements[1].k = "Var"
          /\ IsLoopWithIncrement(Program[2].statements[2])
          /\ Program[2].statements[2].condition.k = "Binary"
          /\ Program[2].statements[2].body.statements[1].k = "Expression"
          /\ Program[3].k = "While" /\ Program[3].condition = TrueLiteral
          /\ Program[3].body.k = "Block"
          /\ Program[3].body.statements[1].k = "Print"
          /\ Program[3].body.statements[2].k = "Break"
          /\ Program[4].k = "Block" /\ Len(Program[4].statements) = 2
          /\ Program[4].statements[1].k = "Expression"
          /\ Program[4].statements[2].k = "While"
          /\ Program[4].statements[2].body.k = "Expression"
          /\ Program[5].k = "Block" /\ IsLoopWithIncrement(Program[5].statements[2])
    /\ (Finished /\ tokens = ProgFor) =>
          /\ interp.out = <<"2", "0", "9">>
          /\ Cardinality(Reads(Program[2].statements[1].initializer)) = 1
          /\ Cardinality(Writes(Program[4].statements[1].expression)) = 1
          /\ Cardinality(Writes(Program[2].statements[2].body.statements[1].expression)) = 2
          /\ Alternate(Program[2].statements[2].body.statements[1].expression,
                       Program[2].statements[2].body.statements[2].expression)
          /\ Cardinality(Writes(Program[4].statements[2].body.expression)) = 2
          /\ Cardinality(Writes(Program[5].statements[2].body.statements[2].expression)) = 1
          /\ \A i \in Events("raise") : Log[i].message = "Undefined variable 'i'."
          /\ Cardinality(Events("raise")) = 1
    /\ (Finished /\ tokens = ProgScenario6) =>
          /\ IsLoopWithIncrement(Program[1].statements[2])
          /\ interp.out = <<"0", "1", "2">>
          /\ Cardinality(Writes(Program[1].statements[2].body.statements[2].expression)) = 3

\* the loops of the program have run: one with all three clauses, one with
\* none, one without increment, one left by break
C26_Witness ==
    /\ Finished /\ tokens = ProgFor
    /\ interp.out = <<"2", "0", "9">>
    /\ Cardinality(Writes(Program[2].statements[2].body.statements[2].expression)) = 2
    /\ Cardinality(Writes(Program[5].statements[2].body.statements[2].expression)) = 1

(***************************************************************************)
(* The parser alone (SpecParser): loopDepth.                               *)
(***************************************************************************)
Trace == parser.trace
MustBeInsideLoop == "Must be inside a loop to use 'break'."

\* C27: when the parser has finished a for or while statement, its body
\* parsed or failed, loopDepth is what it was before the statement; between
\* top-level declarations it is 0; it never goes below 0; and a break met
\* at loopDepth 0 is rejected with Must be inside a loop to use 'break'.
C27_LoopDepthRestored ==
    /\ parser.loopDepth = 0
    /\ \A i \in DOMAIN Trace :
          /\ Trace[i].e = "loop" =>
                Trace[i].after = Trace[i].before /\ Trace[i].before >= 0
          /\ Trace[i].e = "break" =>
                /\ Trace[i].depth >= 0
                /\ Trace[i].depth = 0 => Trace[i].rejected
                /\ Trace[i].rejected =>
                      /\ i = Len(Trace) \/ \A j \in (i + 1)..Len(Trace) : Trace[j].failed
                      /\ \E j \in DOMAIN Reports :
                            Reports[j] = [where |-> "break", message |-> MustBeInsideLoop]
    /\ (Parsed /\ tokens = ProgBreakAfterLoop) =>
          /\ Reports = <<[where |-> "break", message |-> MustBeInsideLoop]>>
          /\ Len(statements) = 2

\* a body failed inside two loops, and both loops gave loopDepth back
C27_Witness ==
    /\ Parsed /\ tokens = ProgNestedLoopError /\ Reports # <<>>
    /\ \E i, j \in DOMAIN Trace :
          /\ Trace[i].e = "loop" /\ Trace[i].failed /\ Trace[i].before = 1
          /\ Trace[j].e = "loop" /\ Trace[j].failed /\ Trace[j].before = 0
    /\ parser.loopDepth = 0

(***************************************************************************)
(* Parse, Resolver, Interpret (Spec): the scope stack of the resolver.     *)
(***************************************************************************)
Scopes == resolver.trace

\* C29: the scope stack of the resolver is balanced: after a block, a
\* function declaration or a function expression is resolved, errors
\* reported inside it or not, the stack is as deep as before it; the stack
\* is empty before and after the program and between its statements; and
\* endScope never meets an empty stack.
C29_ScopeStackBalanced ==
    /\ resolver.scopes = <<>>
    /\ ~resolver.panic
    /\ \A i \in DOMAIN Scopes :
          /\ Scopes[i].e = "scope" => Scopes[i].after = Scopes[i].before
          /\ Scopes[i].e = "endScope" => Scopes[i].depth >= 1

\* a block inside a function body was resolved with a redeclaration
\* reported in it, and the program was resolved to its end
C29_Witness ==
    /\ phase = "resolved" /\ tokens = ProgRedeclare
    /\ RedeclarationReports # {}
    /\ \E i \in DOMAIN Scopes :
          Scopes[i].e = "scope" /\ Scopes[i].kind = "block" /\ Scopes[i].before = 1
    /\ \E i \in DOMAIN Scopes :
          Scopes[i].e = "scope" /\ Scopes[i].kind = "function" /\ Scopes[i].before = 0

(***************************************************************************)
(* Parse, Resolver, Interpret (Spec): the comma operator.                  *)
(***************************************************************************)
IsComma(node) == node.k = "Binary" /\ node.operator = "COMMA"
\* the comma expressions written in the arguments of the calls of the program
CommasInArguments ==
    {i \in DOMAIN Nodes(Program) :
        /\ Nodes(Program)[i].k = "Call"
        /\ \E j \in DOMAIN Nodes(Nodes(Program)[i].arguments) :
              IsComma(Nodes(Nodes(Program)[i].arguments)[j])}

\* C30: a comma expression a, b, which the parser builds outside argument
\* lists only, evaluates a, then b, and yields nil whatever a and b yield,
\* without a runtime error.
C30_CommaYieldsNil ==
    /\ CommasInArguments = {}
    /\ (Finished /\ tokens = ProgComma) =>
          /\ interp.out = <<"nil", "2", "nil", "true">>
          /\ Events("raise") = {}
====
